---- MODULE Spec2Model ----
(***************************************************************************)
(* Verification model of kernel_launcher: the tuning state machine         *)
(* (RawTuneKernel), the sample aggregator (KernelResults), the             *)
(* configuration space and its iterator, the search strategies and the     *)
(* tuning cache.                                                           *)
(***************************************************************************)
EXTENDS Integers, Sequences, FiniteSets, TLC

(***************************************************************************)
(* Bounds of the model.                                                    *)
(***************************************************************************)
\* configurations a strategy may yield within one tuning session
MaxYields == 2
\* largest elapsed time of one measured launch, in model time units
MaxTime == 2
\* largest x-extent of a problem size handed to launch
MaxProblem == 1
\* largest min_evals / num_outliers an aggregator is constructed with
MaxMinEvals == 0
MaxOutliers == 1
\* largest max_evals an aggregator is constructed with
MaxMaxEvals == 2
\* largest max_seconds an aggregator is constructed with, in model time units
MaxMaxSeconds == 2

\* indices a ConfigIterator marks as visited before the model stops calling next
MaxMarked == 3

\* decorators around the RandomStrategy of a strategy
MaxDepth == 1
\* largest max_eval of a LimitStrategy
MaxLimit == 1
\* calls of init and submit made on a strategy
MaxCalls == 3

\* records appended to a cache file
MaxAppends == 3

\* lines after the header in a cache file found on disk
MaxLines == 2

\* the number of bits of the words ConfigSpace::size multiplies in (64 in the
\* code; the domains of the model are as much smaller)
SizeBits == 6

\* the largest index passed to ConfigSpace::get
MaxIndex == 7


\* assertions added to a KernelBuilder
MaxAssertions == 2

\* the number of bits of an unsigned int, the type of the components of a dim3
\* (32 in the code; the problem sizes of the model are as much smaller)
DimBits == 4

\* samples added to a KernelResults between two resets
MaxSamples == 3

\* calls of submit made on a LimitStrategy after its init
MaxSubmits == 3

\* parameters created in a ConfigSpace
MaxParams == 2

\* the number of bits of intmax_t, the type of TunableValue::int_val_, and of
\* long long and unsigned long long (64 in the code); int has one bit less and
\* char two bits less
ValueBits == 4

\* calls of insert made on a Config
MaxInserts == 2

\* calls of intern_string made by one thread
MaxInterns == 1

\* the number of bits of size_t, the type of the hash of a string (64 in the code)
HashBits == 6

\* records that earlier processes left in the cache file of a CachingStrategy
MaxStored == 1
(***************************************************************************)
(* Small helpers on sequences.                                             *)
(***************************************************************************)
Range(s) == {s[i] : i \in DOMAIN s}

RECURSIVE SumOver(_, _, _)
\* sum of Field(s[i]) for i in from..Len(s); Field is "w" (workload) or "t" (time)
SumOver(s, from, field) ==
    IF from > Len(s) THEN 0
    ELSE (IF field = "w" THEN s[from].w ELSE s[from].t) + SumOver(s, from + 1, field)

\* all orderings of the elements of s (as sequences over the same index set)
Perms(s) ==
    {p \in [DOMAIN s -> DOMAIN s] : \A i, j \in DOMAIN s : i # j => p[i] # p[j]}

(***************************************************************************)
(* Performance values: double = workload / time, kept as a fraction n/d so *)
(* that 0/0 (NaN) and x/0 (infinity) stay distinguishable.                 *)
(***************************************************************************)
Perf(n, d) == [n |-> n, d |-> d]

IsNaN(p) == p.n = 0 /\ p.d = 0

\* best_performance_ = -1e99: a finite double below every workload/time >= 0
InitialBestPerformance == Perf(-1, 1)

\* IEEE-754 operator> on doubles (false as soon as one side is NaN)
DoubleGt(a, b) ==
    /\ ~IsNaN(a)
    /\ ~IsNaN(b)
    /\ a.n * b.d > b.n * a.d

(***************************************************************************)
(* TunableValue, TunableParam, Config and ConfigSpace.                     *)
(***************************************************************************)
\* TunableValue: tag and payload
IntVal(i) == [type |-> "int", v |-> i]

StrVal(s) == [type |-> "string", v |-> s]

EmptyVal == [type |-> "empty", v |-> 0]

\* TunableValue::operator==: by tag, then by payload
TunableValue_eq(a, b) == IF a.type # b.type THEN FALSE ELSE a.v = b.v

\* TunableValue::to_string
TunableValue_to_string(val) ==
    IF val.type = "int" THEN ToString(val.v)
    ELSE IF val.type = "string" THEN val.v
    ELSE IF val.type = "bool" THEN (IF val.v THEN "true" ELSE "false")
    ELSE ""

\* TunableParam(name, type, values, default_value)
TunableParam(name, values, default_value) ==
    [name |-> name, values |-> values, default_value |-> default_value]

\* Expr<bool> over parameters: lhs <= rhs, evaluated against a binding
Eval(config, r) ==
    IF r.op = "<=" THEN config[r.lhs].v <= config[r.rhs].v
    ELSE config[r.lhs].v # config[r.rhs].v

\* Config(): no entry
EmptyConfig == [n \in {} |-> EmptyVal]

\* Config::insert: inner_[p] = v, a present entry is overwritten in place
Config_insert(config, p, val) ==
    [n \in DOMAIN config \cup {p.name} |-> IF n = p.name THEN val ELSE config[n]]

\* the spaces of the model: foo, bar in {1, 2} with foo <= bar
SmallSpace ==
    [params_ |-> <<TunableParam("foo", <<IntVal(1), IntVal(2)>>, IntVal(1)),
                   TunableParam("bar", <<IntVal(1), IntVal(2)>>, IntVal(1))>>,
     restrictions_ |-> <<[op |-> "<=", lhs |-> "foo", rhs |-> "bar"]>>]

\* a in 1..3, b in 1..11 with a <= b: 33 indices
WideSpace ==
    [params_ |-> <<TunableParam("a", [i \in 1..3 |-> IntVal(i)], IntVal(1)),
                   TunableParam("b", [i \in 1..11 |-> IntVal(i)], IntVal(1))>>,
     restrictions_ |-> <<[op |-> "<=", lhs |-> "a", rhs |-> "b"]>>]

\* two string parameters whose values hold the separator of the cache key
PipeSpace ==
    [params_ |-> <<TunableParam("p", <<StrVal("a"), StrVal("a|b")>>, StrVal("a")),
                   TunableParam("q", <<StrVal("b|c"), StrVal("c")>>, StrVal("c"))>>,
     restrictions_ |-> <<[op |-> "#", lhs |-> "p", rhs |-> "q"]>>]

RECURSIVE SizeLoop(_, _, _)
\* ConfigSpace::size, the loop from parameter k on with the product n so far, in
\* words of SizeBits bits: [thrown, n]
SizeLoop(params, k, n) ==
    IF k > Len(params) THEN [thrown |-> FALSE, n |-> n]
    ELSE LET size == Len(params[k].values) % (2 ^ SizeBits)
         IN  IF size = 0 THEN [thrown |-> FALSE, n |-> 0]
             ELSE IF ((n * size) % (2 ^ SizeBits)) \div size # n
             THEN [thrown |-> TRUE, n |-> 0]
             ELSE SizeLoop(params, k + 1, (n * size) % (2 ^ SizeBits))

\* ConfigSpace::size: [thrown, n]
ConfigSpace_size_call(space) == SizeLoop(space.params_, 1, 1)

\* ConfigSpace::size where it returns
ConfigSpace_size(space) == ConfigSpace_size_call(space).n

\* ConfigSpace::get without the division of the index
DecodeSameIndex(params, k, index, config) ==
    [n \in DOMAIN config \cup {params[j].name : j \in k..Len(params)} |->
        IF \E j \in k..Len(params) : params[j].name = n
        THEN LET j == CHOOSE j \in k..Len(params) : params[j].name = n
             IN  params[j].values[(index % Len(params[j].values)) + 1]
        ELSE config[n]]

RECURSIVE Decode(_, _, _, _)
\* ConfigSpace::get, the loop over params_: mixed-radix digits of index
Decode(params, k, index, config) ==
    IF k > Len(params) THEN config
    ELSE LET n == Len(params[k].values)
             i == index % n
         IN  Decode(params, k + 1, index \div n,
                    Config_insert(config, params[k], params[k].values[i + 1]))

Restricted(space, config) ==
    \A k \in DOMAIN space.restrictions_ : Eval(config, space.restrictions_[k])

\* ConfigSpace::get without the test of the restrictions
ConfigSpace_getUnrestricted(space, index, config) ==
    [config |-> Decode(space.params_, 1, index, config), ok |-> TRUE]

\* ConfigSpace::get: [config, ok]
ConfigSpace_get(space, index, config) ==
    LET c == Decode(space.params_, 1, index, config)
    IN  [config |-> c, ok |-> Restricted(space, c)]

RECURSIVE IsValidLoop(_, _, _)
\* ConfigSpace::is_valid, the loop over params_ from parameter k on: "throw" when
\* config[p] finds no entry for p, "false" at a value that is in no entry of
\* p.values(), "true" after the last parameter
IsValidLoop(params, k, config) ==
    IF k > Len(params) THEN "true"
    ELSE IF params[k].name \notin DOMAIN config THEN "throw"
    ELSE IF \A j \in DOMAIN params[k].values :
                ~TunableValue_eq(config[params[k].name], params[k].values[j])
    THEN "false"
    ELSE IsValidLoop(params, k + 1, config)

\* ConfigSpace::is_valid: "true", "false", or "throw" for the exception of config[p]
ConfigSpace_is_valid_call(space, config) ==
    IF Cardinality(DOMAIN config) # Len(space.params_) THEN "false"
    ELSE IF IsValidLoop(space.params_, 1, config) # "true"
    THEN IsValidLoop(space.params_, 1, config)
    ELSE IF Restricted(space, config) THEN "true" ELSE "false"

\* ConfigSpace::is_valid where it returns, on a config over the parameters of
\* the space
ConfigSpace_is_valid(space, config) == ConfigSpace_is_valid_call(space, config) = "true"

RECURSIVE DefaultsFrom(_, _, _)
\* ConfigSpace::default_config, the loop of the inserts
DefaultsFrom(params, k, config) ==
    IF k > Len(params) THEN config
    ELSE DefaultsFrom(params, k + 1,
                      Config_insert(config, params[k], params[k].default_value))

\* ConfigSpace::default_config: [thrown, config]
ConfigSpace_default_config(space) ==
    LET c == DefaultsFrom(space.params_, 1, EmptyConfig)
    IN  IF Restricted(space, c) THEN [thrown |-> FALSE, config |-> c]
        ELSE [thrown |-> TRUE, config |-> EmptyConfig]

\* the indices of a space whose configuration passes the restrictions
ValidIndices(space) ==
    {index \in 0..(ConfigSpace_size(space) - 1) :
        ConfigSpace_get(space, index, EmptyConfig).ok}

(***************************************************************************)
(* ConfigIterator: visited_ maps a word offset to a 64-bit word, kept as   *)
(* the set of its bits that are 1.                                         *)
(***************************************************************************)
\* what a build makes of the int shift 1 << bit_offset when bit_offset >= 32,
\* which is undefined: the count taken modulo 32 (x86 shl), the value 0 (the bit
\* shifted out), or the shift carried out on a 64-bit register
Builds == {"mod32", "zero", "wide"}

\* uint64_t mask = 1 << bit_offset: the shift is made on int and the int is then
\* converted, so that INT_MIN (bit 31) sign-extends to the bits 31..63
ShiftMask(bit_offset, build) ==
    LET IntBit(b) == IF b = 31 THEN 31..63 ELSE {b}
    IN  IF bit_offset < 32 THEN IntBit(bit_offset)
        ELSE IF build = "mod32" THEN IntBit(bit_offset % 32)
        ELSE IF build = "zero" THEN {}
        ELSE {bit_offset}

\* visited_[word_offset]: a word that is not there is created as 0
Word(visited, word_offset) ==
    IF word_offset \in DOMAIN visited THEN visited[word_offset] ELSE {}

\* ConfigIterator::reset
ConfigIterator_reset(space) ==
    [space_ |-> space, size_ |-> ConfigSpace_size(space),
     visited_ |-> [w \in {} |-> {}], remaining_ |-> ConfigSpace_size(space)]

\* ConfigIterator() = default: the iterator of an empty space
DefaultIterator == ConfigIterator_reset([params_ |-> <<>>, restrictions_ |-> <<>>])

\* the indices dist(rng_) can return that pass the test (word & mask) != 0
Unvisited(it, build) ==
    {index \in 0..(it.size_ - 1) :
        Word(it.visited_, index \div 64) \cap ShiftMask(index % 64, build) = {}}

\* word |= mask; remaining_--
Mark(it, index, build) ==
    LET word_offset == index \div 64
        word == Word(it.visited_, word_offset) \cup ShiftMask(index % 64, build)
    IN  [it EXCEPT !.visited_ = [w \in DOMAIN it.visited_ \cup {word_offset} |->
                                    IF w = word_offset THEN word ELSE it.visited_[w]],
                   !.remaining_ = it.remaining_ - 1]

RECURSIVE ConfigIterator_next(_, _, _)
\* ConfigIterator::next: the outcomes [it, config, ret, index] of one call; ret is
\* "true", "false", or "hang" when remaining_ > 0 and every index dist can return
\* is taken as visited, so that the loop never ends
ConfigIterator_next(it, config, build) ==
    IF it.remaining_ <= 0
    THEN {[it |-> it, config |-> config, ret |-> "false", index |-> 0]}
    ELSE IF Unvisited(it, build) = {}
    THEN {[it |-> it, config |-> config, ret |-> "hang", index |-> 0]}
    ELSE UNION {
            LET marked == Mark(it, index, build)
                got == ConfigSpace_get(it.space_, index, config)
            IN  IF got.ok
                THEN {[it |-> marked, config |-> got.config, ret |-> "true",
                       index |-> index]}
                ELSE ConfigIterator_next(marked, got.config, build)
            : index \in Unvisited(it, build)}

(***************************************************************************)
(* TuningCache: the file is a header line and the record lines appended to *)
(* it, each a JSON object as json::parse returns it.                       *)
(***************************************************************************)
IsFinite(p) == p.d # 0

JsonNull == [type |-> "null", v |-> 0]

\* a double written by operator<< and read back by json::parse: the library
\* writes a number that is not finite (NaN, infinity) as null
Json_double(p) == IF IsFinite(p) THEN [type |-> "number_float", v |-> p] ELSE JsonNull

\* TunableValue::to_json, written and read back: an integer without sign is
\* parsed as number_unsigned
TunableValue_to_json(val) ==
    IF val.type = "int"
    THEN [type |-> IF val.v >= 0 THEN "number_unsigned" ELSE "number_integer", v |-> val.v]
    ELSE IF val.type = "string" THEN [type |-> "string", v |-> val.v]
    ELSE IF val.type = "bool" THEN [type |-> "boolean", v |-> val.v]
    ELSE JsonNull

\* TunableValue::from_json
TunableValue_from_json(obj) ==
    IF obj.type \in {"number_integer", "number_unsigned"} THEN IntVal(obj.v)
    ELSE IF obj.type = "string" THEN StrVal(obj.v)
    ELSE IF obj.type = "boolean" THEN [type |-> "bool", v |-> obj.v]
    ELSE EmptyVal

\* Config::to_json
Config_to_json(config) == [n \in DOMAIN config |-> TunableValue_to_json(config[n])]

\* a.name() < b.name() on the parameter names of the model
NameRank(name) ==
    CHOOSE r \in 1..6 : <<"a", "b", "bar", "foo", "p", "q">>[r] = name

\* std::sort(parameters_) by name
SortByName(params) ==
    CHOOSE s \in [DOMAIN params -> Range(params)] :
        /\ \A k \in DOMAIN params : \E j \in DOMAIN params : s[j] = params[k]
        /\ \A j, k \in DOMAIN params :
              j < k => NameRank(s[j].name) < NameRank(s[k].name)

\* KernelBuilder: the space with the kernel name; current_device_name()
Builder(space, kernel_name) ==
    [params_ |-> space.params_, restrictions_ |-> space.restrictions_,
     kernel_name |-> kernel_name]

CurrentDevice == "device0"

NoFile == [exists |-> FALSE, header |-> JsonNull, records |-> <<>>]

\* create_header: the fields assert_header_correct reads
create_header(builder, params) ==
    [magic |-> "kernel_launcher", version |-> "0.1",
     kernel_name |-> builder.kernel_name, device |-> CurrentDevice,
     parameters |-> [k \in DOMAIN params |-> params[k].name]]

\* assert_header_correct without the test of the device
assert_header_correctAnyDevice(builder, params, header) ==
    /\ header.magic = "kernel_launcher"
    /\ header.version = "0.1"
    /\ header.kernel_name = builder.kernel_name
    /\ Len(params) = Len(header.parameters)
    /\ \A k \in DOMAIN params : header.parameters[k] = params[k].name

\* assert_header_correct: TRUE when it does not throw
assert_header_correct(builder, params, header) ==
    /\ header.magic = "kernel_launcher"
    /\ header.version = "0.1"
    /\ header.kernel_name = builder.kernel_name
    /\ header.device = CurrentDevice
    /\ Len(params) = Len(header.parameters)
    /\ \A k \in DOMAIN params : header.parameters[k] = params[k].name

\* ConfigSpace::load_config without param.default_value() == value
ConfigSpace_load_configDomainOnly(space, obj) ==
    LET Value(k) == IF space.params_[k].name \in DOMAIN obj
                    THEN TunableValue_from_json(obj[space.params_[k].name])
                    ELSE EmptyVal
        Allowed(k) ==
            \E j \in DOMAIN space.params_[k].values :
                TunableValue_eq(Value(k), space.params_[k].values[j])
        config == [n \in {space.params_[k].name : k \in DOMAIN space.params_} |->
                      Value(CHOOSE k \in DOMAIN space.params_ : space.params_[k].name = n)]
    IN  IF \E k \in DOMAIN space.params_ : ~Allowed(k)
        THEN [thrown |-> TRUE, config |-> EmptyConfig]
        ELSE IF ~Restricted(space, config)
        THEN [thrown |-> TRUE, config |-> EmptyConfig]
        ELSE [thrown |-> FALSE, config |-> config]

\* ConfigSpace::load_config: [thrown, config]
ConfigSpace_load_config(space, obj) ==
    LET Value(k) == IF space.params_[k].name \in DOMAIN obj
                    THEN TunableValue_from_json(obj[space.params_[k].name])
                    ELSE EmptyVal
        Allowed(k) ==
            \/ TunableValue_eq(space.params_[k].default_value, Value(k))
            \/ \E j \in DOMAIN space.params_[k].values :
                  TunableValue_eq(Value(k), space.params_[k].values[j])
        config == [n \in {space.params_[k].name : k \in DOMAIN space.params_} |->
                      Value(CHOOSE k \in DOMAIN space.params_ : space.params_[k].name = n)]
    IN  IF \E k \in DOMAIN space.params_ : ~Allowed(k)
        THEN [thrown |-> TRUE, config |-> EmptyConfig]
        ELSE IF ~Restricted(space, config)
        THEN [thrown |-> TRUE, config |-> EmptyConfig]
        ELSE [thrown |-> FALSE, config |-> config]

\* map with cache_[key] = performance
CachePut(cache, key, performance) ==
    [k \in DOMAIN cache \cup {key} |-> IF k = key THEN performance ELSE cache[k]]

EmptyCache == [k \in {} |-> Perf(0, 0)]

\* TuningCache(): nothing opened
NewTuningCache == [initialized_ |-> FALSE, parameters_ |-> <<>>, cache_ |-> EmptyCache]

\* a line of the file that is not a record as json::parse returns it: the text
\* of the line, "" for an empty line
RawLine(text) == [raw |-> text]

IsRaw(line) == "raw" \in DOMAIN line

RECURSIVE ReadRecords(_, _, _, _)
\* TuningCache::initialize, the loop over the record lines from line k on:
\* [thrown, cache_, best] where best is 0 or the number of the best record;
\* an empty line is skipped, and json::parse throws on any other text that is
\* not a JSON value
ReadRecords(records, k, cache, best) ==
    IF k > Len(records) THEN [thrown |-> FALSE, cache_ |-> cache, best |-> best]
    ELSE IF IsRaw(records[k])
    THEN IF records[k].raw = "" THEN ReadRecords(records, k + 1, cache, best)
         ELSE [thrown |-> TRUE, cache_ |-> cache, best |-> best]
    ELSE IF records[k].performance.type # "number_float"
    THEN [thrown |-> TRUE, cache_ |-> cache, best |-> best]
    ELSE LET performance == records[k].performance.v
             best_performance == IF best = 0 THEN Perf(-1, 0)
                                 ELSE records[best].performance.v
         IN  ReadRecords(records, k + 1, CachePut(cache, records[k].key, performance),
                         IF DoubleGt(performance, best_performance) THEN k ELSE best)

\* TuningCache::initialize: [thrown, ret, best_config, cache, file]
TuningCache_initialize(file, builder) ==
    LET parameters == SortByName(builder.params_)
        opened == [initialized_ |-> TRUE, parameters_ |-> parameters, cache_ |-> EmptyCache]
    IN  IF ~file.exists
        THEN [thrown |-> FALSE, ret |-> FALSE, best_config |-> EmptyConfig, cache |-> opened,
              file |-> [exists |-> TRUE, header |-> create_header(builder, parameters),
                        records |-> <<>>]]
        ELSE IF ~assert_header_correct(builder, parameters, file.header)
        THEN [thrown |-> TRUE, ret |-> FALSE, best_config |-> EmptyConfig, cache |-> opened,
              file |-> file]
        ELSE LET read == ReadRecords(file.records, 1, EmptyCache, 0)
                 loaded == [opened EXCEPT !.cache_ = read.cache_]
             IN  IF read.thrown
                 THEN [thrown |-> TRUE, ret |-> FALSE, best_config |-> EmptyConfig,
                       cache |-> loaded, file |-> file]
                 ELSE IF read.best = 0
                 THEN [thrown |-> FALSE, ret |-> FALSE, best_config |-> EmptyConfig,
                       cache |-> loaded, file |-> file]
                 ELSE LET best == ConfigSpace_load_config(builder,
                                      file.records[read.best].config)
                      IN  [thrown |-> best.thrown, ret |-> ~best.thrown,
                           best_config |-> best.config, cache |-> loaded, file |-> file]

RECURSIVE KeyFrom(_, _, _)
KeyFrom(config, params, k) ==
    IF k > Len(params) THEN ""
    ELSE (IF k = 1 THEN "" ELSE "|") \o TunableValue_to_string(config[params[k].name])
         \o KeyFrom(config, params, k + 1)

\* config_to_key
config_to_key(config, params) == KeyFrom(config, params, 1)

\* TuningCache::append: [cache, file]
TuningCache_append(cache, file, config, performance) ==
    LET key == config_to_key(config, cache.parameters_)
    IN  [cache |-> [cache EXCEPT !.cache_ = CachePut(cache.cache_, key, performance)],
         file |-> [file EXCEPT !.records =
                      Append(@, [key |-> key, config |-> Config_to_json(config),
                                 performance |-> Json_double(performance)])]]

\* TuningCache::find: [found, answer]
TuningCache_find(cache, config) ==
    LET key == config_to_key(config, cache.parameters_)
    IN  IF key \in DOMAIN cache.cache_
        THEN [found |-> TRUE, answer |-> cache.cache_[key]]
        ELSE [found |-> FALSE, answer |-> Perf(0, 0)]

(***************************************************************************)
(* Strategies. A strategy is the sequence of its layers from the outermost *)
(* one to the RandomStrategy at the bottom; inner_ of layer i is layer     *)
(* i + 1. A call works on x = [st, config, file, ret, via, asked,           *)
(* proposed]: the layers, the in-out config, the cache file, what the call *)
(* returned ("true", "false", "throw", "hang") and by which strategy, and  *)
(* the history of the calls that the CachingStrategy layers made to their  *)
(* inner_ on the way.                                                      *)
(***************************************************************************)
SpaceOf(builder) == [params_ |-> builder.params_, restrictions_ |-> builder.restrictions_]

RandomStrategy == [kind |-> "Random", iter_ |-> DefaultIterator]

LimitStrategy(max_eval) == [kind |-> "Limit", curr_eval_ |-> 0, max_eval_ |-> max_eval]

HillClimbingStrategy ==
    [kind |-> "HillClimbing", attempted_neighbors_ |-> {}, neighbors_ |-> <<>>,
     attempted_neighbors_count_ |-> 0, space_ |-> [params_ |-> <<>>, restrictions_ |-> <<>>],
     best_performance_ |-> Perf(-1, 1), best_config_ |-> EmptyConfig]

CachingStrategy ==
    [kind |-> "Caching", cache_ |-> NewTuningCache, first_run_ |-> TRUE,
     first_config_ |-> EmptyConfig]

Ret(x, ret, via) == [x EXCEPT !.ret = ret, !.via = via]

\* config[p] is there for every parameter of params
HasAll(config, params) == \A k \in DOMAIN params : params[k].name \in DOMAIN config

RECURSIVE NeighborsFrom(_, _)
\* HillClimbingStrategy::init, lines 47-52: every (parameter, value) pair
NeighborsFrom(params, k) ==
    IF k > Len(params) THEN <<>>
    ELSE [j \in DOMAIN params[k].values |->
             [param |-> params[k], value |-> params[k].values[j]]]
         \o NeighborsFrom(params, k + 1)

\* HillClimbingStrategy::update_best without the std::fill of line 34
update_bestKeepsAttempted(layer, performance, config) ==
    [layer EXCEPT !.attempted_neighbors_count_ = 0,
                  !.best_performance_ = performance,
                  !.best_config_ = config]

\* HillClimbingStrategy::update_best
update_best(layer, performance, config) ==
    [layer EXCEPT !.attempted_neighbors_ = {},
                  !.attempted_neighbors_count_ = 0,
                  !.best_performance_ = performance,
                  !.best_config_ = config]

\* HillClimbingStrategy::submit, line 92: config.insert(pair.first, old_val), where
\* old_val is a reference to the entry of config that line 89 has overwritten
PutBack(config, param) == Config_insert(config, param, config[param.name])

RECURSIVE Strategy_init(_, _, _, _)
RECURSIVE Strategy_submit(_, _, _, _)
RECURSIVE internal_submit(_, _, _)
RECURSIVE HillClimbingWhile(_, _)

\* RandomStrategy::init
RandomStrategy_init(x, i, builder, build) ==
    {[x EXCEPT !.st[i].iter_ = r.it, !.config = r.config, !.ret = r.ret, !.via = "Random"]
     : r \in ConfigIterator_next(ConfigIterator_reset(SpaceOf(builder)), x.config, build)}

\* RandomStrategy::submit
RandomStrategy_submit(x, i, performance, build) ==
    {[x EXCEPT !.st[i].iter_ = r.it, !.config = r.config, !.ret = r.ret, !.via = "Random"]
     : r \in ConfigIterator_next(x.st[i].iter_, x.config, build)}

\* LimitStrategy::init
LimitStrategy_init(x, i, builder, build) ==
    Strategy_init([x EXCEPT !.st[i].curr_eval_ = 0], i + 1, builder, build)

\* LimitStrategy::submit with curr_eval_++ <= max_eval_
LimitStrategy_submitInclusive(x, i, performance, build) ==
    {IF r.ret # "true" THEN r
     ELSE IF r.st[i].curr_eval_ <= r.st[i].max_eval_
     THEN [r EXCEPT !.st[i].curr_eval_ = @ + 1]
     ELSE [r EXCEPT !.st[i].curr_eval_ = @ + 1, !.ret = "false", !.via = "Limit"]
     : r \in Strategy_submit(x, i + 1, performance, build)}

\* LimitStrategy::submit: inner_.submit(...) && curr_eval_++ < max_eval_
LimitStrategy_submit(x, i, performance, build) ==
    {IF r.ret # "true" THEN r
     ELSE IF r.st[i].curr_eval_ < r.st[i].max_eval_
     THEN [r EXCEPT !.st[i].curr_eval_ = @ + 1]
     ELSE [r EXCEPT !.st[i].curr_eval_ = @ + 1, !.ret = "false", !.via = "Limit"]
     : r \in Strategy_submit(x, i + 1, performance, build)}

\* HillClimbingStrategy::init
HillClimbingStrategy_init(x, i, builder, build) ==
    LET space == SpaceOf(builder)
        x1 == [x EXCEPT !.st[i].space_ = space,
                        !.st[i].neighbors_ = NeighborsFrom(space.params_, 1),
                        !.st[i].attempted_neighbors_ = {}]
    IN  {IF r.ret # "true" THEN r
         ELSE IF ConfigSpace_size(space) > 0
         THEN [r EXCEPT !.st[i] = update_best(@, Perf(0, 1), r.config)]
         ELSE [r EXCEPT !.st[i] = update_best(@, Perf(0, 1), r.config),
                        !.ret = "false", !.via = "HillClimbing"]
         : r \in Strategy_init(x1, i + 1, builder, build)}

\* HillClimbingStrategy::submit, the loop of lines 70-97 run from each x of S:
\* what it can leave with, ret "true" (line 96), "throw" (config[pair.first]),
\* "hang" (every index attempted and the count below the size), or "exit" when
\* the condition of line 70 ends it
HillClimbingWhile(S, i) ==
    IF S = {} THEN {}
    ELSE LET Turn(x) ==
                 LET layer == x.st[i]
                     free == {index \in DOMAIN layer.neighbors_ :
                                 index \notin layer.attempted_neighbors_}
                 IN  IF layer.attempted_neighbors_count_ >= Len(layer.neighbors_)
                     THEN {Ret(x, "exit", "HillClimbing")}
                     ELSE IF free = {} THEN {Ret(x, "hang", "HillClimbing")}
                     ELSE {LET pair == layer.neighbors_[index]
                               x2 == [x EXCEPT !.st[i].attempted_neighbors_count_ = @ + 1,
                                               !.st[i].attempted_neighbors_ = @ \cup {index}]
                               inserted == Config_insert(x.config, pair.param, pair.value)
                           IN  IF pair.param.name \notin DOMAIN x.config
                               THEN Ret(x2, "throw", "HillClimbing")
                               ELSE IF TunableValue_eq(x.config[pair.param.name], pair.value)
                               THEN Ret(x2, "continue", "HillClimbing")
                               ELSE IF ~ConfigSpace_is_valid(layer.space_, inserted)
                               THEN Ret([x2 EXCEPT !.config = PutBack(inserted, pair.param)],
                                        "continue", "HillClimbing")
                               ELSE Ret([x2 EXCEPT !.config = inserted],
                                        "true", "HillClimbing")
                           : index \in free}
             turned == UNION {Turn(x) : x \in S}
         IN  {r \in turned : r.ret # "continue"}
             \cup HillClimbingWhile({r \in turned : r.ret = "continue"}, i)

\* HillClimbingStrategy::submit
HillClimbingStrategy_submit(x, i, performance, build) ==
    LET left == HillClimbingWhile(
                    {IF DoubleGt(performance, x.st[i].best_performance_)
                     THEN [x EXCEPT !.st[i] = update_best(@, performance, x.config)]
                     ELSE [x EXCEPT !.config = x.st[i].best_config_]}, i)
    IN  {r \in left : r.ret # "exit"}
        \cup UNION {{IF r.ret # "true" THEN r
                     ELSE [r EXCEPT !.st[i] = update_best(@, Perf(0, 1), r.config)]
                     : r \in Strategy_submit(e, i + 1, performance, build)}
                    : e \in {r \in left : r.ret = "exit"}}

\* inner_.init(builder, config) as layer i calls it from x; x.proposed is the
\* configuration that inner_ yielded last
InnerInit(x, i, builder, build) ==
    {[r EXCEPT !.proposed = IF r.ret = "true" THEN r.config ELSE @]
     : r \in Strategy_init(x, i + 1, builder, build)}

\* inner_.submit(performance, config) as layer i calls it from x; x.asked is
\* the set of these calls: who asked, what was handed over, and what inner_
\* had yielded last by then
InnerSubmit(x, i, performance, build) ==
    {[r EXCEPT !.asked = @ \cup {[by |-> i, performance |-> performance,
                                  config |-> x.config, latest |-> x.proposed]},
               !.proposed = IF r.ret = "true" THEN r.config ELSE @]
     : r \in Strategy_submit(x, i + 1, performance, build)}

\* internal_submit without the loop: whatever config holds is yielded
internal_submitOnce(S, i, build) ==
    {IF HasAll(x.config, x.st[i].cache_.parameters_) THEN [x EXCEPT !.ret = "true"]
     ELSE Ret(x, "throw", "Caching")
     : x \in S}

\* internal_submit(cache_, inner_, config), run from each x of S
internal_submit(S, i, build) ==
    IF S = {} THEN {}
    ELSE LET Found(x) == TuningCache_find(x.st[i].cache_, x.config)
             whole == {x \in S : HasAll(x.config, x.st[i].cache_.parameters_)}
             again == UNION {InnerSubmit(x, i, Found(x).answer, build)
                             : x \in {y \in whole : Found(y).found}}
         IN  {Ret(x, "throw", "Caching") : x \in S \ whole}
             \cup {[x EXCEPT !.ret = "true"] : x \in {y \in whole : ~Found(y).found}}
             \cup {r \in again : r.ret # "true"}
             \cup internal_submit({r \in again : r.ret = "true"}, i, build)

\* CachingStrategy::init
CachingStrategy_init(x, i, builder, build) ==
    LET inner == InnerInit(x, i, builder, build)
        Opened(r) == TuningCache_initialize(r.file, builder)
        With(r) == [r EXCEPT !.st[i].cache_ = Opened(r).cache, !.file = Opened(r).file]
        yielded_ == {r \in inner : r.ret = "true"}
    IN  {r \in inner : r.ret # "true"}
        \cup {Ret(With(r), "throw", "Caching") : r \in {y \in yielded_ : Opened(y).thrown}}
        \cup {[With(r) EXCEPT !.st[i].first_run_ = TRUE,
                              !.st[i].first_config_ = r.config,
                              !.config = Opened(r).best_config,
                              !.ret = "true", !.via = "Caching"]
              : r \in {y \in yielded_ : ~Opened(y).thrown /\ Opened(y).ret}}
        \cup internal_submit({[With(r) EXCEPT !.st[i].first_run_ = FALSE]
                              : r \in {y \in yielded_ : ~Opened(y).thrown /\ ~Opened(y).ret}},
                             i, build)

\* CachingStrategy::submit where the first run only restores first_config_ and
\* then goes on as every other submit does
CachingStrategy_submitRecordsFirst(x, i, performance, build) ==
    LET layer == x.st[i]
        x0 == IF layer.first_run_
              THEN [x EXCEPT !.st[i].first_run_ = FALSE,
                             !.st[i].first_config_ = EmptyConfig,
                             !.config = layer.first_config_]
              ELSE x
    IN  IF ~layer.cache_.initialized_ \/ ~HasAll(x0.config, layer.cache_.parameters_)
        THEN {Ret(x0, "throw", "Caching")}
        ELSE LET a == TuningCache_append(layer.cache_, x0.file, x0.config, performance)
                 x1 == [x0 EXCEPT !.st[i].cache_ = a.cache, !.file = a.file]
                 inner == InnerSubmit(x1, i, performance, build)
             IN  {r \in inner : r.ret # "true"}
                 \cup internal_submit({r \in inner : r.ret = "true"}, i, build)

\* CachingStrategy::submit
CachingStrategy_submit(x, i, performance, build) ==
    LET layer == x.st[i]
    IN  IF layer.first_run_
        THEN internal_submit({[x EXCEPT !.st[i].first_run_ = FALSE,
                                        !.st[i].first_config_ = EmptyConfig,
                                        !.config = layer.first_config_,
                                        !.via = "Caching"]}, i, build)
        ELSE IF ~layer.cache_.initialized_ \/ ~HasAll(x.config, layer.cache_.parameters_)
        THEN {Ret(x, "throw", "Caching")}
        ELSE LET a == TuningCache_append(layer.cache_, x.file, x.config, performance)
                 x1 == [x EXCEPT !.st[i].cache_ = a.cache, !.file = a.file]
                 inner == InnerSubmit(x1, i, performance, build)
             IN  {r \in inner : r.ret # "true"}
                 \cup internal_submit({r \in inner : r.ret = "true"}, i, build)

\* AnyTuningStrategy::init: the init of layer i
Strategy_init(x, i, builder, build) ==
    IF x.st[i].kind = "Random" THEN RandomStrategy_init(x, i, builder, build)
    ELSE IF x.st[i].kind = "Limit" THEN LimitStrategy_init(x, i, builder, build)
    ELSE IF x.st[i].kind = "HillClimbing" THEN HillClimbingStrategy_init(x, i, builder, build)
    ELSE CachingStrategy_init(x, i, builder, build)

\* AnyTuningStrategy::submit: the submit of layer i
Strategy_submit(x, i, performance, build) ==
    IF x.st[i].kind = "Random" THEN RandomStrategy_submit(x, i, performance, build)
    ELSE IF x.st[i].kind = "Limit" THEN LimitStrategy_submit(x, i, performance, build)
    ELSE IF x.st[i].kind = "HillClimbing"
    THEN HillClimbingStrategy_submit(x, i, performance, build)
    ELSE CachingStrategy_submit(x, i, performance, build)

(***************************************************************************)
(* dim3 problem sizes and their workload.                                  *)
(***************************************************************************)
ProblemSizes == {[x |-> px, y |-> 1, z |-> 1] : px \in 1..MaxProblem}

\* p.first.x * p.first.y * p.first.z on unsigned int: the product of the
\* components in words of DimBits bits
Workload(ps) == (ps.x * ps.y * ps.z) % (2 ^ DimBits)

Times == 1..MaxTime

(***************************************************************************)
(* KernelResults (the aggregator).                                         *)
(***************************************************************************)
AggregatorSettings ==
    [min_evals_ : 0..MaxMinEvals, max_evals_ : 1..MaxMaxEvals,
     max_seconds_ : 1..MaxMaxSeconds, num_outliers_ : 0..MaxOutliers]

\* KernelResults::add
KernelResults_add(records, ps, time) ==
    Append(records, [ps |-> ps, w |-> Workload(ps), t |-> time])

\* std::sort by time from high to low: any ordering with non-increasing times
SortedByTime(records) ==
    {[i \in DOMAIN records |-> records[p[i]]] : p \in
        {q \in Perms(records) :
            \A i, j \in DOMAIN records : i < j => records[q[i]].t >= records[q[j]].t}}

\* KernelResults::collect: the set of possible outcomes
\* [records_, ok, performance]
KernelResults_collect(records, a) ==
    IF Len(records) < a.min_evals_ + a.num_outliers_
    THEN {[records_ |-> records, ok |-> FALSE, performance |-> Perf(0, 0)]}
    ELSE {LET total_workload == SumOver(s, a.num_outliers_ + 1, "w")
              total_time == SumOver(s, a.num_outliers_ + 1, "t")
          IN  IF Len(s) < a.max_evals_ /\ total_time < a.max_seconds_
              THEN [records_ |-> s, ok |-> FALSE, performance |-> Perf(0, 0)]
              ELSE [records_ |-> s, ok |-> TRUE,
                    performance |-> Perf(total_workload, total_time)]
          : s \in SortedByTime(records)}

(***************************************************************************)
(* RawKernel: a compiled variant behind a std::future<CudaModule>.         *)
(*   fut: "none" (no shared state), "pending", "ok", "failed"              *)
(***************************************************************************)
EmptyKernel == [cfg |-> 0, fut |-> "none", ready_ |-> FALSE, module_ |-> FALSE]

NewKernel(c, f) == [cfg |-> c, fut |-> f, ready_ |-> FALSE, module_ |-> FALSE]

\* RawKernel::ready
RawKernel_ready(k) == k.ready_ \/ (k.fut # "none" /\ k.fut \in {"ok", "failed"})

\* the values a pending future can resolve to while a caller blocks on it
Resolve(f) == IF f = "pending" THEN {"ok", "failed"} ELSE {f}

\* RawKernel::launch: outcomes [k, thrown, waited]
\* future_.get() without shared state is undefined; the standard libraries
\* throw std::future_error there.
RawKernel_launch(k) ==
    IF ~k.ready_
    THEN {IF f = "ok"
          THEN [k |-> [k EXCEPT !.ready_ = TRUE, !.module_ = TRUE, !.fut = "none"],
                thrown |-> FALSE, waited |-> k.fut = "pending"]
          ELSE [k |-> [k EXCEPT !.ready_ = TRUE, !.fut = "none"],
                thrown |-> TRUE, waited |-> k.fut = "pending"]
          : f \in Resolve(k.fut)}
    ELSE {[k |-> k, thrown |-> ~k.module_, waited |-> FALSE]}

(***************************************************************************)
(* State.                                                                  *)
(***************************************************************************)
VARIABLES
    \* RawTuneKernel
    state_,             \* state_uninitialized .. state_finished
    best_performance_,
    best_kernel_,
    current_config_,
    current_kernel_,
    current_problem_,
    records_,           \* aggregator_.records_
    aggregator_,        \* aggregator_'s min_evals_, max_evals_, max_seconds_, num_outliers_
    after_event_,       \* TRUE: recorded on the stream and not synchronized since
    yielded,            \* strategy_: configurations yielded so far
    \* what the last call of launch did, and what the session did so far
    called,             \* problem size the last launch call was made with
    ops,                \* operations of the last launch call, in order
    launched,           \* kernel and problem size enqueued by the last launch call
    thrown,             \* the last launch call left by an exception
    handed,             \* <<configuration, performance>> pairs handed to strategy_.submit
    \* what an iterator, a strategy and a cache work on
    build,              \* what the build makes of the undefined shift, see Builds
    builder_,           \* the KernelBuilder: space and kernel name
    config,             \* the Config the caller passes by reference
    file,               \* the cache file
    \* ConfigIterator
    iter_,
    iter_ret,           \* what the last call of next returned; "none" before it
    iter_index,         \* the index the last call of next decoded into config
    yield_count,        \* index -> number of calls that returned true with it
    \* a strategy and the session that drives it
    strategy,           \* the layers, outermost first
    strat_ret,          \* what the last init or submit returned; "none" before it
    strat_via,          \* the strategy whose code made that return
    trues,              \* configurations yielded since the session began
    calls,              \* calls of init and submit so far
    \* TuningCache
    cache,
    open_ret,           \* outcome of the last initialize
    find_ret,           \* outcome of the last find
    appended,           \* the (config, performance) pairs appended so far
    \* one call made on a ConfigSpace or a KernelBuilder
    call,               \* the member called and its arguments; name "none" before it
    result,             \* what the call returned or threw
    compiled,           \* the RawKernel the last compile returned
    \* intern_string and the threads that call it
    table,              \* the static table: nodes (key, second), in order of insertion
    heap,               \* the std::string objects alive: address -> contents
    lock,               \* the thread that holds the static mutex, 0 for none
    pc,                 \* thread -> where it is in intern_string
    input,              \* thread -> the argument of its call
    it,                 \* thread -> the place in table of its iterator, 0 for end()
    interned            \* thread -> the (input, reference) pairs its calls returned

tuneVars ==
    <<state_, best_performance_, best_kernel_, current_config_, current_kernel_,
      current_problem_, records_, aggregator_, after_event_, yielded, called, ops,
      launched, thrown, handed>>

sharedVars == <<build, builder_, config, file>>

iterVars == <<iter_, iter_ret, iter_index, yield_count>>

stratVars == <<strategy, strat_ret, strat_via, trues, calls>>

cacheVars == <<cache, open_ret, find_ret, appended>>

callVars == <<call, result, compiled>>

internVars == <<table, heap, lock, pc, input, it, interned>>

vars == <<tuneVars, sharedVars, iterVars, stratVars, cacheVars, callVars, internVars>>

\* nothing but the named object exists: the other variables stay as constructed
NoOpen == [thrown |-> FALSE, ret |-> FALSE, best_config |-> EmptyConfig, seen |-> 0]

NoFind == [config |-> EmptyConfig, found |-> FALSE, answer |-> Perf(0, 0)]

TuneIdle ==
    /\ state_ = "uninitialized"
    /\ best_performance_ = InitialBestPerformance
    /\ best_kernel_ = EmptyKernel
    /\ current_config_ = 0
    /\ current_kernel_ = EmptyKernel
    /\ current_problem_ = 0
    /\ records_ = <<>>
    /\ aggregator_ = 0
    /\ after_event_ = FALSE
    /\ yielded = 0
    /\ called = 0
    /\ ops = <<>>
    /\ launched = 0
    /\ thrown = FALSE
    /\ handed = <<>>

IterIdle ==
    /\ iter_ = DefaultIterator
    /\ iter_ret = "none"
    /\ iter_index = 0
    /\ yield_count = <<>>

StratIdle ==
    /\ strategy = <<>>
    /\ strat_ret = "none"
    /\ strat_via = "none"
    /\ trues = 0
    /\ calls = 0

CacheIdle ==
    /\ cache = NewTuningCache
    /\ open_ret = NoOpen
    /\ find_ret = NoFind
    /\ appended = <<>>

NoCall == [name |-> "none"]

NotCompiled == [compiled |-> FALSE]

CallIdle ==
    /\ call = NoCall
    /\ result = NoCall
    /\ compiled = NotCompiled

\* the threads that call intern_string
Threads == {1, 2, 3}

InternIdle ==
    /\ table = <<>>
    /\ heap = <<>>
    /\ lock = 0
    /\ pc = [t \in Threads |-> "idle"]
    /\ input = [t \in Threads |-> <<>>]
    /\ it = [t \in Threads |-> 0]
    /\ interned = [t \in Threads |-> <<>>]

(***************************************************************************)
(* RawTuneKernel.                                                          *)
(***************************************************************************)
NoProblem == [x |-> 0, y |-> 0, z |-> 0]

NoLaunch == [cfg |-> 0, problem_size |-> NoProblem]

\* the session as one record, for the loop of launch
Session ==
    [state_ |-> state_, best_performance_ |-> best_performance_,
     best_kernel_ |-> best_kernel_, current_config_ |-> current_config_,
     current_kernel_ |-> current_kernel_, current_problem_ |-> current_problem_,
     records_ |-> records_, aggregator_ |-> aggregator_, after_event_ |-> after_event_,
     yielded |-> yielded, ops |-> <<>>, launched |-> NoLaunch, thrown |-> FALSE,
     handed |-> handed]

\* an operation of the call, with the state_ it is made in and whether the
\* after event is recorded and not yet synchronized at that moment
Op(m, o) ==
    [m EXCEPT !.ops = Append(@, [op |-> o, in |-> m.state_, pending |-> m.after_event_])]

Throw(m) == [Op(m, "throw") EXCEPT !.thrown = TRUE]

\* what compiler.compile can do with a configuration: throw (NvrtcCompiler on a
\* rejected source, or a failed evaluation in KernelBuilder::compile), return a
\* ready future (NvrtcCompiler) or a pending one (AsyncCompiler)
CompileOutcomes == {"throw", "ok", "pending"}

\* RawTuneKernel::next_configuration
next_configuration(m) ==
    {IF c = "throw"
     THEN Throw(Op([m EXCEPT !.state_ = "compiling"], "compile"))
     ELSE [Op([m EXCEPT !.state_ = "compiling"], "compile") EXCEPT
              !.current_kernel_ = NewKernel(m.current_config_, c),
              !.records_ = <<>>]
     : c \in CompileOutcomes}

\* strategy_.submit(performance, current_config_): any TuningStrategy; it answers
\* false, or true with the next configuration in current_config_
StrategySubmit(m, performance) ==
    LET told == [Op(m, "submit") EXCEPT
                    !.handed = Append(@, [cfg |-> m.current_config_,
                                          performance |-> performance])]
    IN  {[ret |-> FALSE, m |-> told]}
        \cup (IF m.yielded < MaxYields
              THEN {[ret |-> TRUE,
                     m |-> [told EXCEPT !.yielded = @ + 1,
                                        !.current_config_ = m.yielded + 1]]}
              ELSE {})

\* launch, lines 59-62: synchronize the after event and aggregate the sample
MeasureSample(m, time) ==
    [Op(Op(m, "sync_after"), "add_sample") EXCEPT
        !.after_event_ = FALSE,
        !.records_ = KernelResults_add(m.records_, m.current_problem_, time),
        !.state_ = "tuning"]

\* mutant of UpdateBest: the comparison with best_performance_ is lost
UpdateBestAlways(m, performance) ==
    [Op(m, "update_best") EXCEPT !.best_kernel_ = m.current_kernel_,
                                 !.current_kernel_ = EmptyKernel,
                                 !.best_performance_ = performance]

\* launch, lines 66-69: keep the current kernel as best when it is faster
UpdateBest(m, performance) ==
    IF DoubleGt(performance, m.best_performance_)
    THEN [Op(m, "update_best") EXCEPT !.best_kernel_ = m.current_kernel_,
                                       !.current_kernel_ = EmptyKernel,
                                       !.best_performance_ = performance]
    ELSE m

\* launch, lines 72-75: the strategy is exhausted
Finish(m) == [m EXCEPT !.state_ = "finished"]

\* best_kernel_.launch / current_kernel_.launch from RawTuneKernel::launch
LaunchKernel(m, which, problem_size) ==
    {LET m1 == IF which = "best"
               THEN [Op(m, "launch_best") EXCEPT !.best_kernel_ = r.k]
               ELSE [Op(m, "launch_current") EXCEPT !.current_kernel_ = r.k]
         m2 == IF r.waited THEN Op(m1, "future_get_blocks") ELSE m1
     IN  IF r.thrown THEN Throw(m2)
         ELSE [m2 EXCEPT !.launched = [cfg |-> r.k.cfg, problem_size |-> problem_size]]
     : r \in RawKernel_launch(IF which = "best" THEN m.best_kernel_
                              ELSE m.current_kernel_)}

\* mutant of TuningRun: the events are recorded around no launch
TuningRunDry(m, problem_size) ==
    {[Op(Op(m, "record_before"), "record_after") EXCEPT
         !.after_event_ = TRUE,
         !.current_problem_ = problem_size,
         !.state_ = "measuring"]}

\* mutant of TuningRun: the tuning run goes back to Compiling
TuningRunRecompiles(m, problem_size) ==
    {IF l.thrown THEN l
     ELSE [Op(l, "record_after") EXCEPT !.after_event_ = TRUE,
                                        !.current_problem_ = problem_size,
                                        !.state_ = "compiling"]
     : l \in LaunchKernel(Op(m, "record_before"), "current", problem_size)}

\* launch, lines 85-91: the tuning run between the before and the after event
TuningRun(m, problem_size) ==
    {IF l.thrown THEN l
     ELSE [Op(l, "record_after") EXCEPT !.after_event_ = TRUE,
                                        !.current_problem_ = problem_size,
                                        !.state_ = "measuring"]
     : l \in LaunchKernel(Op(m, "record_before"), "current", problem_size)}

\* mutant of FinishedLaunch: Finished keeps measuring the current kernel
FinishedLaunchMeasured(m, problem_size) == TuningRun(m, problem_size)

\* launch, lines 52-54: Finished, just launch the best kernel
FinishedLaunch(m, problem_size) == LaunchKernel(m, "best", problem_size)

\* launch, line 96: Compiling synchronizes the after event first
CompilingSync(m) == [Op(m, "sync_after") EXCEPT !.after_event_ = FALSE]

\* mutant of FallbackLaunch: the fallback waits for the module being compiled
FallbackLaunchWaits(m, problem_size) ==
    {IF l.thrown THEN l
     ELSE [Op(l, "record_after") EXCEPT !.after_event_ = TRUE]
     : l \in LaunchKernel(Op(m, "wait_future"), "best", problem_size)}

\* launch, lines 100-103: the current kernel is not ready, fall back on the best
FallbackLaunch(m, problem_size) ==
    {IF l.thrown THEN l
     ELSE [Op(l, "record_after") EXCEPT !.after_event_ = TRUE]
     : l \in LaunchKernel(m, "best", problem_size)}

\* launch, line 105: current_kernel_.wait_ready(), that is future_.wait();
\* undefined without shared state (the standard libraries throw
\* std::future_error)
WaitReady(m) ==
    IF m.current_kernel_.fut = "none"
    THEN {Throw(Op(m, "wait_future"))}
    ELSE {[Op(m, "wait_future") EXCEPT !.current_kernel_.fut = f]
          : f \in Resolve(m.current_kernel_.fut)}

RECURSIVE Dispatch(_, _)
\* RawTuneKernel::launch: the while(1) loop, from session m to the sessions in
\* which the call returns or throws
Dispatch(m, problem_size) ==
    IF m.thrown THEN {m}
    ELSE IF m.state_ = "finished" THEN FinishedLaunch(m, problem_size)
    ELSE IF m.state_ = "measuring" THEN
        UNION {
            LET m1 == MeasureSample(m, time)
            IN  UNION {
                    IF ~c.ok
                    THEN Dispatch([m1 EXCEPT !.records_ = c.records_], problem_size)
                    ELSE UNION {
                            IF ~s.ret
                            THEN Dispatch(Finish(s.m), problem_size)
                            ELSE UNION {Dispatch(n, problem_size)
                                        : n \in next_configuration(s.m)}
                            : s \in StrategySubmit(
                                        UpdateBest([m1 EXCEPT !.records_ = c.records_],
                                                   c.performance),
                                        c.performance)}
                    : c \in KernelResults_collect(m1.records_, m1.aggregator_)}
            : time \in Times}
    ELSE IF m.state_ = "tuning" THEN TuningRun(m, problem_size)
    ELSE IF m.state_ = "compiling" THEN
        LET m1 == CompilingSync(m)
        IN  IF RawKernel_ready(m1.current_kernel_)
            THEN Dispatch([m1 EXCEPT !.state_ = "tuning"], problem_size)
            ELSE IF RawKernel_ready(m1.best_kernel_)
            THEN FallbackLaunch(m1, problem_size)
            ELSE UNION {Dispatch(w, problem_size) : w \in WaitReady(m1)}
    ELSE {Throw(m)}

\* a call of launch(stream, problem_size, args)
Launch ==
    \E problem_size \in ProblemSizes :
        \E r \in Dispatch(Session, problem_size) :
            /\ state_' = r.state_
            /\ best_performance_' = r.best_performance_
            /\ best_kernel_' = r.best_kernel_
            /\ current_config_' = r.current_config_
            /\ current_kernel_' = r.current_kernel_
            /\ current_problem_' = r.current_problem_
            /\ records_' = r.records_
            /\ aggregator_' = r.aggregator_
            /\ after_event_' = r.after_event_
            /\ yielded' = r.yielded
            /\ called' = problem_size
            /\ ops' = r.ops
            /\ launched' = r.launched
            /\ thrown' = r.thrown
            /\ handed' = r.handed
            /\ UNCHANGED <<internVars, sharedVars, iterVars, stratVars, cacheVars, callVars>>

\* the compilation behind current_kernel_ ends on its worker thread
CompileFinish ==
    /\ current_kernel_.fut = "pending"
    /\ \E f \in {"ok", "failed"} : current_kernel_' = [current_kernel_ EXCEPT !.fut = f]
    /\ UNCHANGED <<state_, best_performance_, best_kernel_, current_config_,
                   current_problem_, records_, aggregator_, after_event_, yielded,
                   called, ops, launched, thrown, handed>>
    /\ UNCHANGED <<internVars, sharedVars, iterVars, stratVars, cacheVars, callVars>>

\* RawTuneKernel(builder, parameter_types, strategy, compiler, aggregator):
\* strategy_.init yielded the first configuration and next_configuration ran;
\* or RawTuneKernel() = default
TuneInit ==
    /\ \/ /\ state_ = "compiling"
          /\ yielded = 1
          /\ current_config_ = 1
          /\ \E f \in {"ok", "pending"} : current_kernel_ = NewKernel(1, f)
       \/ /\ state_ = "uninitialized"
          /\ yielded = 0
          /\ current_config_ = 0
          /\ current_kernel_ = EmptyKernel
    /\ best_performance_ = InitialBestPerformance
    /\ best_kernel_ = EmptyKernel
    /\ current_problem_ = NoProblem
    /\ called = NoProblem
    /\ records_ = <<>>
    /\ aggregator_ \in AggregatorSettings
    /\ after_event_ = FALSE
    /\ ops = <<>>
    /\ launched = NoLaunch
    /\ thrown = FALSE
    /\ handed = <<>>

Init ==
    /\ TuneInit
    /\ build = "mod32"
    /\ builder_ = Builder(SmallSpace, "kernel")
    /\ config = EmptyConfig
    /\ file = NoFile
    /\ IterIdle
    /\ StratIdle
    /\ CacheIdle
    /\ CallIdle
    /\ InternIdle

Next == Launch \/ CompileFinish

Spec == Init /\ [][Next]_vars

(***************************************************************************)
(* A ConfigIterator and the calls of next and reset on it.                 *)
(***************************************************************************)
\* the spaces an iterator is made over
IterSpaces == <<SmallSpace, WideSpace>>

\* ConfigIterator(space): reset(), with a config of the caller that is empty
IterInit ==
    /\ build \in Builds
    /\ \E k \in DOMAIN IterSpaces :
          /\ builder_ = Builder(IterSpaces[k], "kernel")
          /\ iter_ = ConfigIterator_reset(IterSpaces[k])
          /\ yield_count = [index \in 0..(ConfigSpace_size(IterSpaces[k]) - 1) |-> 0]
    /\ config = EmptyConfig
    /\ file = NoFile
    /\ iter_ret = "none"
    /\ iter_index = 0
    /\ TuneIdle
    /\ StratIdle
    /\ CacheIdle
    /\ CallIdle
    /\ InternIdle

\* a call of next(config); a call that hangs never returns, so none follows it
IterNext ==
    /\ iter_ret # "hang"
    /\ iter_.remaining_ <= 0 \/ iter_.size_ - iter_.remaining_ < MaxMarked
    /\ \E r \in ConfigIterator_next(iter_, config, build) :
          /\ iter_' = r.it
          /\ config' = r.config
          /\ iter_ret' = r.ret
          /\ iter_index' = r.index
          /\ yield_count' = IF r.ret = "true"
                            THEN [yield_count EXCEPT ![r.index] = @ + 1]
                            ELSE yield_count
    /\ UNCHANGED <<internVars, build, builder_, file, tuneVars, stratVars, cacheVars, callVars>>

\* a call of reset(): the enumeration starts again
IterReset ==
    /\ iter_ret \notin {"none", "hang"}
    /\ iter_' = ConfigIterator_reset(iter_.space_)
    /\ iter_ret' = "none"
    /\ iter_index' = 0
    /\ yield_count' = [index \in DOMAIN yield_count |-> 0]
    /\ UNCHANGED <<internVars, build, builder_, config, file, tuneVars, stratVars, cacheVars, callVars>>

NextIter == IterNext \/ IterReset

SpecIter == IterInit /\ [][NextIter]_vars

(***************************************************************************)
(* A strategy made of the four kinds in any nesting, and the tuning        *)
(* sessions that drive it: init, then submit while the last call yielded.  *)
(***************************************************************************)
Kinds == <<"Limit", "HillClimbing", "Caching">>

\* the decorators of a strategy, outermost first
Shapes == UNION {[1..n -> DOMAIN Kinds] : n \in 0..MaxDepth}

\* the strategy as constructed: every LimitStrategy of it with max_eval
Construct(shape, max_eval) ==
    [i \in 1..(Len(shape) + 1) |->
        IF i > Len(shape) THEN RandomStrategy
        ELSE IF Kinds[shape[i]] = "Limit" THEN LimitStrategy(max_eval)
        ELSE IF Kinds[shape[i]] = "HillClimbing" THEN HillClimbingStrategy
        ELSE CachingStrategy]

\* the objects of a new process: as constructed, with the max_eval they had
Constructed(st) ==
    LET New(layer) ==
            IF layer.kind = "Random" THEN RandomStrategy
            ELSE IF layer.kind = "Limit" THEN LimitStrategy(layer.max_eval_)
            ELSE IF layer.kind = "HillClimbing" THEN HillClimbingStrategy
            ELSE CachingStrategy
    IN  SubSeq([k \in DOMAIN st |-> New(st[k])], 1, Len(st))

\* the performances a session hands to submit: two numbers and NaN
SubmitPerformances == <<Perf(1, 1), Perf(2, 1), Perf(0, 0)>>

StratInit ==
    /\ build = "mod32"
    /\ builder_ = Builder(SmallSpace, "kernel")
    /\ config = EmptyConfig
    /\ file = NoFile
    /\ \E shape \in Shapes :
          \E max_eval \in (IF \E i \in DOMAIN shape : Kinds[shape[i]] = "Limit"
                           THEN 0..MaxLimit ELSE {0}) :
              strategy = Construct(shape, max_eval)
    /\ strat_ret = "none"
    /\ strat_via = "none"
    /\ trues = 0
    /\ calls = 0
    /\ TuneIdle
    /\ IterIdle
    /\ CacheIdle
    /\ CallIdle
    /\ InternIdle

\* what a call leaves behind
Returned(r) ==
    /\ strategy' = r.st
    /\ config' = r.config
    /\ file' = r.file
    /\ strat_ret' = r.ret
    /\ strat_via' = r.via
    /\ calls' = calls + 1
    /\ UNCHANGED <<internVars, build, builder_, tuneVars, iterVars, cacheVars, callVars>>

\* a process starts a session: strategy.init(builder, config) on a strategy as
\* constructed and an empty config; the cache file is the one on disk
SessionInit ==
    /\ calls < MaxCalls
    /\ \E r \in Strategy_init([st |-> Constructed(strategy), config |-> EmptyConfig,
                               file |-> file, ret |-> "none", via |-> "none",
                               asked |-> {}, proposed |-> EmptyConfig],
                              1, builder_, build) :
          /\ Returned(r)
          /\ trues' = IF r.ret = "true" THEN 1 ELSE 0

\* the session hands the performance of the configuration it was given:
\* strategy.submit(performance, config)
SessionSubmit ==
    /\ calls < MaxCalls
    /\ strat_ret = "true"
    /\ \E k \in DOMAIN SubmitPerformances :
          \E r \in Strategy_submit([st |-> strategy, config |-> config, file |-> file,
                                    ret |-> "none", via |-> "none", asked |-> {},
                                    proposed |-> EmptyConfig],
                                   1, SubmitPerformances[k], build) :
              /\ Returned(r)
              /\ trues' = IF r.ret = "true" THEN trues + 1 ELSE trues

NextStrategy == SessionInit \/ SessionSubmit

SpecStrategy == StratInit /\ [][NextStrategy]_vars

(***************************************************************************)
(* A TuningCache on a file: initialize (by the object, or by the object of *)
(* a later process on the same file), append and find.                     *)
(***************************************************************************)
\* the configurations of the builder's space that pass its restrictions
ValidConfigs(space) ==
    {ConfigSpace_get(space, index, EmptyConfig).config : index \in ValidIndices(space)}

\* the performances a caller appends: two numbers and NaN, which a
\* KernelResults without a record left after the outliers returns
AppendPerformances == <<Perf(1, 1), Perf(2, 1), Perf(0, 0)>>

CacheInit ==
    /\ build = "mod32"
    /\ builder_ = Builder(PipeSpace, "kernel")
    /\ config = EmptyConfig
    /\ file = NoFile
    /\ cache = NewTuningCache
    /\ open_ret = NoOpen
    /\ find_ret = NoFind
    /\ appended = <<>>
    /\ TuneIdle
    /\ IterIdle
    /\ StratIdle
    /\ CallIdle
    /\ InternIdle

\* initialize(filename, builder, best_config) on a new TuningCache object
CacheOpen ==
    /\ LET o == TuningCache_initialize(file, builder_)
       IN  /\ cache' = o.cache
           /\ file' = o.file
           /\ open_ret' = [thrown |-> o.thrown, ret |-> o.ret,
                           best_config |-> o.best_config, seen |-> Len(appended)]
    /\ find_ret' = NoFind
    /\ UNCHANGED <<internVars, build, builder_, config, appended, tuneVars, iterVars, stratVars, callVars>>

\* append(config, performance) on the object that initialize returned from
CacheAppend ==
    /\ cache.initialized_
    /\ ~open_ret.thrown
    /\ Len(appended) < MaxAppends
    /\ \E c \in ValidConfigs(SpaceOf(builder_)) :
          \E k \in DOMAIN AppendPerformances :
              LET a == TuningCache_append(cache, file, c, AppendPerformances[k])
              IN  /\ cache' = a.cache
                  /\ file' = a.file
                  /\ appended' = Append(appended, [config |-> c,
                                                   performance |-> AppendPerformances[k]])
    /\ find_ret' = NoFind
    /\ UNCHANGED <<internVars, build, builder_, config, open_ret, tuneVars, iterVars, stratVars, callVars>>

\* find(config, answer) on the object that initialize returned from
CacheFind ==
    /\ cache.initialized_
    /\ ~open_ret.thrown
    /\ \E c \in ValidConfigs(SpaceOf(builder_)) :
          LET f == TuningCache_find(cache, c)
          IN  find_ret' = [config |-> c, found |-> f.found, answer |-> f.answer]
    /\ UNCHANGED <<internVars, build, builder_, config, file, cache, open_ret, appended,
                   tuneVars, iterVars, stratVars, callVars>>

NextCache == CacheOpen \/ CacheAppend \/ CacheFind

SpecCache == CacheInit /\ [][NextCache]_vars

(***************************************************************************)
(* A TuningCache opened on a file that is already on disk: written by an   *)
(* earlier process for some kernel, device and parameters, and holding     *)
(* records, empty lines, whitespace and records torn by a writer.          *)
(***************************************************************************)
\* the space of the builder, its parameters declared in either order
DeclaredSpaces ==
    <<SmallSpace,
      [SmallSpace EXCEPT !.params_ = <<SmallSpace.params_[2], SmallSpace.params_[1]>>]>>

\* the header that an open for the builder wrote, and headers that differ from
\* it in one field
HeadersOnDisk(builder) ==
    LET own == create_header(builder, SortByName(builder.params_))
    IN  <<own,
          [own EXCEPT !.magic = "other"],
          [own EXCEPT !.version = "0.0"],
          [own EXCEPT !.kernel_name = "other"],
          [own EXCEPT !.device = "device1"],
          [own EXCEPT !.parameters = <<own.parameters[2], own.parameters[1]>>],
          [own EXCEPT !.parameters = <<own.parameters[1]>>],
          [own EXCEPT !.parameters = <<own.parameters[1], "baz">>]>>

\* the lines found after the header: two records, an empty line, a line of
\* blanks, and the first part of a record
LinesOnDisk(space) ==
    LET sorted == [NewTuningCache EXCEPT !.parameters_ = SortByName(space.params_)]
        Line(index, performance) ==
            TuningCache_append(sorted, NoFile,
                               ConfigSpace_get(space, index, EmptyConfig).config,
                               performance).file.records[1]
    IN  <<Line(0, Perf(1, 1)), Line(2, Perf(2, 1)), RawLine(""), RawLine("  "),
          RawLine("{\"key\": \"1|2\", \"conf")>>

CacheFileInit ==
    /\ build = "mod32"
    /\ \E d, w \in DOMAIN DeclaredSpaces :
          /\ builder_ = Builder(DeclaredSpaces[d], "kernel")
          /\ \E h \in DOMAIN HeadersOnDisk(Builder(DeclaredSpaces[w], "kernel")) :
                \E n \in 0..MaxLines :
                    \E ls \in [1..n -> DOMAIN LinesOnDisk(SmallSpace)] :
                        file = [exists |-> TRUE,
                                header |-> HeadersOnDisk(
                                               Builder(DeclaredSpaces[w], "kernel"))[h],
                                records |-> [k \in 1..n |-> LinesOnDisk(SmallSpace)[ls[k]]]]
    /\ config = EmptyConfig
    /\ cache = NewTuningCache
    /\ open_ret = NoOpen
    /\ find_ret = NoFind
    /\ appended = <<>>
    /\ TuneIdle
    /\ IterIdle
    /\ StratIdle
    /\ CallIdle
    /\ InternIdle

\* the process opens the file and looks configurations up
NextCacheFile == CacheOpen \/ CacheFind

SpecCacheFile == CacheFileInit /\ [][NextCacheFile]_vars

(***************************************************************************)
(* Two processes that open and append to one cache file without            *)
(* coordination, and a later process that opens the file they left. Each   *)
(* process has its own TuningCache object; initialize tests for the file   *)
(* (line 135) and creates it (lines 138-139) in two steps.                 *)
(***************************************************************************)
Writers == {1, 2}

Later == 3

\* the performances the writers append
FinitePerformances == <<Perf(1, 1), Perf(2, 1)>>

\* where a process is: before initialize, between the test of line 137 and the
\* std::ofstream of line 138, or back from initialize
At(p, at) == open_ret[p].at = at

SharedInit ==
    /\ build = "mod32"
    /\ builder_ = Builder(SmallSpace, "kernel")
    /\ config = EmptyConfig
    /\ file = NoFile
    /\ cache = [p \in Writers \cup {Later} |-> NewTuningCache]
    /\ open_ret = [p \in Writers \cup {Later} |-> [at |-> "new", thrown |-> FALSE, seen |-> 0]]
    /\ find_ret = NoFind
    /\ appended = <<>>
    /\ TuneIdle
    /\ IterIdle
    /\ StratIdle
    /\ CallIdle
    /\ InternIdle

\* initialize up to line 137 on a file that is not there: !stream is true
SharedOpenMissing(p) ==
    /\ p \in Writers
    /\ At(p, "new")
    /\ ~file.exists
    /\ open_ret' = [open_ret EXCEPT ![p].at = "create"]
    /\ cache' = [cache EXCEPT ![p] = TuningCache_initialize(NoFile, builder_).cache]
    /\ UNCHANGED <<internVars, build, builder_, config, file, find_ret, appended,
                   tuneVars, iterVars, stratVars, callVars>>

\* initialize, lines 138-140: std::ofstream creates the file, or truncates the
\* file that is there by now, and the header is written
SharedOpenCreate(p) ==
    /\ p \in Writers
    /\ At(p, "create")
    /\ file' = TuningCache_initialize(NoFile, builder_).file
    /\ open_ret' = [open_ret EXCEPT ![p].at = "open"]
    /\ UNCHANGED <<internVars, build, builder_, config, cache, find_ret, appended,
                   tuneVars, iterVars, stratVars, callVars>>

\* initialize on the file that is there: the header and the records are read
SharedOpenRead(p) ==
    /\ p \in Writers \cup {Later}
    /\ At(p, "new")
    /\ file.exists
    /\ p = Later => \A w \in Writers : ~At(w, "new")
    /\ LET o == TuningCache_initialize(file, builder_)
       IN  /\ cache' = [cache EXCEPT ![p] = o.cache]
           /\ open_ret' = [open_ret EXCEPT ![p] = [at |-> "open", thrown |-> o.thrown,
                                                   seen |-> Len(appended)]]
    /\ UNCHANGED <<internVars, build, builder_, config, file, find_ret, appended,
                   tuneVars, iterVars, stratVars, callVars>>

\* append(config, performance) by a writer, the record written as one line
SharedAppend(p) ==
    /\ p \in Writers
    /\ At(p, "open")
    /\ ~open_ret[p].thrown
    /\ Len(appended) < MaxAppends
    /\ \E c \in ValidConfigs(SpaceOf(builder_)) :
          \E k \in DOMAIN FinitePerformances :
              LET a == TuningCache_append(cache[p], file, c, FinitePerformances[k])
              IN  /\ cache' = [cache EXCEPT ![p] = a.cache]
                  /\ file' = a.file
                  /\ appended' = Append(appended, [config |-> c,
                                                   performance |-> FinitePerformances[k]])
    /\ UNCHANGED <<internVars, build, builder_, config, open_ret, find_ret,
                   tuneVars, iterVars, stratVars, callVars>>

\* find(config, answer) by the later process
SharedFind ==
    /\ At(Later, "open")
    /\ ~open_ret[Later].thrown
    /\ \E c \in ValidConfigs(SpaceOf(builder_)) :
          LET f == TuningCache_find(cache[Later], c)
          IN  find_ret' = [config |-> c, found |-> f.found, answer |-> f.answer]
    /\ UNCHANGED <<internVars, build, builder_, config, file, cache, open_ret, appended,
                   tuneVars, iterVars, stratVars, callVars>>

NextShared ==
    \/ \E p \in Writers : SharedOpenMissing(p)
    \/ \E p \in Writers : SharedOpenCreate(p)
    \/ \E p \in Writers \cup {Later} : SharedOpenRead(p)
    \/ \E p \in Writers : SharedAppend(p)
    \/ SharedFind

SpecCacheShared == SharedInit /\ [][NextShared]_vars

(***************************************************************************)
(* One call of a member of ConfigSpace: is_valid, get, default_config,     *)
(* load_config or size, on a space and arguments drawn from small sets.    *)
(***************************************************************************)
\* foo in {1, 2} with a default that is no entry of its domain, bar in
\* {1, 2, 3}, foo <= bar (tune(name, values, default) takes any default)
RadixSpace ==
    [params_ |-> <<TunableParam("foo", <<IntVal(1), IntVal(2)>>, IntVal(0)),
                   TunableParam("bar", <<IntVal(1), IntVal(2), IntVal(3)>>, IntVal(1))>>,
     restrictions_ |-> <<[op |-> "<=", lhs |-> "foo", rhs |-> "bar"]>>]

\* the same domains with defaults that do not pass foo <= bar
BadDefaultSpace ==
    [params_ |-> <<TunableParam("foo", <<IntVal(1), IntVal(2)>>, IntVal(2)),
                   TunableParam("bar", <<IntVal(1), IntVal(2), IntVal(3)>>, IntVal(1))>>,
     restrictions_ |-> <<[op |-> "<=", lhs |-> "foo", rhs |-> "bar"]>>]

\* the sizes of the domains of the spaces size is called on; a product of 8 * 8
\* does not fit a word of SizeBits bits
DomainSizes == <<0, 1, 3, 8>>

SizedNames == <<"a", "b", "p">>

\* a space without restrictions whose parameter k has DomainSizes[sizes[k]] values
SizedSpace(sizes) ==
    [params_ |-> [k \in DOMAIN sizes |->
                     TunableParam(SizedNames[k],
                                  [i \in 1..DomainSizes[sizes[k]] |-> IntVal(i)],
                                  IntVal(1))],
     restrictions_ |-> <<>>]

\* the names and values the configs passed to is_valid and load_config bind
InputNames == {"foo", "bar", "baz"}

InputValues == <<IntVal(0), IntVal(1), IntVal(2), IntVal(3)>>

SpaceInit ==
    /\ build = "mod32"
    /\ \/ \E space \in {SmallSpace, RadixSpace, BadDefaultSpace} :
             builder_ = Builder(space, "kernel")
       \/ \E n \in 1..Len(SizedNames) :
             \E sizes \in [1..n -> DOMAIN DomainSizes] :
                 builder_ = Builder(SizedSpace(sizes), "kernel")
    /\ config = EmptyConfig
    /\ file = NoFile
    /\ TuneIdle
    /\ IterIdle
    /\ StratIdle
    /\ CacheIdle
    /\ CallIdle
    /\ InternIdle

\* space.is_valid(config)
SpaceIsValid ==
    /\ call = NoCall
    /\ \E names \in SUBSET InputNames :
          \E values \in [names -> DOMAIN InputValues] :
              LET c == [n \in names |-> InputValues[values[n]]]
              IN  /\ call' = [name |-> "is_valid", config |-> c]
                  /\ result' = [ret |-> ConfigSpace_is_valid_call(SpaceOf(builder_), c)]
    /\ UNCHANGED <<internVars, compiled, sharedVars, tuneVars, iterVars, stratVars, cacheVars>>

\* space.get(index, config) on a space without an empty domain (index % 0 is
\* not defined), with a config that is empty or holds an earlier binding
SpaceGet ==
    /\ call = NoCall
    /\ \A k \in DOMAIN builder_.params_ : Len(builder_.params_[k].values) > 0
    /\ \E index \in 0..MaxIndex :
          \E c \in {EmptyConfig, DefaultsFrom(builder_.params_, 1, EmptyConfig)} :
              /\ call' = [name |-> "get", index |-> index, config |-> c]
              /\ result' = ConfigSpace_get(SpaceOf(builder_), index, c)
    /\ UNCHANGED <<internVars, compiled, sharedVars, tuneVars, iterVars, stratVars, cacheVars>>

\* space.default_config()
SpaceDefaultConfig ==
    /\ call = NoCall
    /\ call' = [name |-> "default_config"]
    /\ result' = ConfigSpace_default_config(SpaceOf(builder_))
    /\ UNCHANGED <<internVars, compiled, sharedVars, tuneVars, iterVars, stratVars, cacheVars>>

\* space.load_config(c.to_json()) for a config c over the parameters of the space
SpaceLoadConfig ==
    /\ call = NoCall
    /\ \E values \in [{builder_.params_[k].name : k \in DOMAIN builder_.params_}
                        -> DOMAIN InputValues] :
          LET c == [n \in DOMAIN values |-> InputValues[values[n]]]
          IN  /\ call' = [name |-> "load_config", config |-> c]
              /\ result' = ConfigSpace_load_config(SpaceOf(builder_), Config_to_json(c))
    /\ UNCHANGED <<internVars, compiled, sharedVars, tuneVars, iterVars, stratVars, cacheVars>>

\* space.size()
SpaceSize ==
    /\ call = NoCall
    /\ call' = [name |-> "size"]
    /\ result' = ConfigSpace_size_call(SpaceOf(builder_))
    /\ UNCHANGED <<internVars, compiled, sharedVars, tuneVars, iterVars, stratVars, cacheVars>>

NextSpace ==
    \/ SpaceIsValid
    \/ SpaceGet
    \/ SpaceDefaultConfig
    \/ SpaceLoadConfig
    \/ SpaceSize

SpecSpace == SpaceInit /\ [][NextSpace]_vars

(***************************************************************************)
(* A KernelBuilder: block_size, grid_divisors and assertion while it is    *)
(* set up, then compile(config), the enumeration of its space, and launch  *)
(* of the RawKernel that compile returned.                                 *)
(***************************************************************************)
\* Expr<uint32_t>: a literal or a parameter
Literal(v) == [kind |-> "literal", v |-> v]

ParamExpr(name) == [kind |-> "parameter", name |-> name]

\* Eval::operator() on an Expr<uint32_t>
EvalExpr(binding, e) == IF e.kind = "literal" THEN e.v ELSE binding[e.name].v

\* the quotient taken as (left + right - 1) / right, in unsigned int
div_ceilSum(left, right) == ((left + right - 1) % (2 ^ DimBits)) \div right

\* div_ceil(left, right) for right # 0, in unsigned int
div_ceil(left, right) ==
    ((left \div right) + (IF left % right # 0 THEN 1 ELSE 0)) % (2 ^ DimBits)

\* KernelBuilder(kernel_source, kernel_name) over the parameters that tune added
KernelBuilder(space, kernel_name) ==
    [params_ |-> space.params_, restrictions_ |-> space.restrictions_,
     kernel_name |-> kernel_name,
     block_size_ |-> <<Literal(1), Literal(1), Literal(1)>>,
     grid_divisors_ |-> <<Literal(1), Literal(1), Literal(1)>>,
     assertions_ |-> <<>>]

\* KernelBuilder::grid_divisors(x), y and z by default 1
KernelBuilder_grid_divisors(builder, x) ==
    [builder EXCEPT !.grid_divisors_ = <<x, Literal(1), Literal(1)>>]

\* KernelBuilder::block_size(x), y and z by default 1: sets the grid divisors too
KernelBuilder_block_size(builder, x) ==
    [KernelBuilder_grid_divisors(builder, x)
        EXCEPT !.block_size_ = <<x, Literal(1), Literal(1)>>]

\* KernelBuilder::assertion without restrict(fun)
KernelBuilder_assertionOnly(builder, fun) ==
    [builder EXCEPT !.assertions_ = Append(@, fun)]

\* KernelBuilder::assertion: restrict(fun); assertions_.emplace_back(fun)
KernelBuilder_assertion(builder, fun) ==
    [builder EXCEPT !.restrictions_ = Append(@, fun),
                    !.assertions_ = Append(@, fun)]

\* KernelBuilder::compile: [thrown, submitted, kernel]; submitted is TRUE when
\* compiler.compile was called
KernelBuilder_compile(builder, c) ==
    IF \E k \in DOMAIN builder.assertions_ : ~Eval(c, builder.assertions_[k])
    THEN [thrown |-> TRUE, what |-> "assertion failed", submitted |-> FALSE,
          kernel |-> NotCompiled]
    ELSE [thrown |-> FALSE, what |-> "", submitted |-> TRUE,
          kernel |-> [compiled |-> TRUE,
                      block_size_ |-> [k \in 1..3 |-> EvalExpr(c, builder.block_size_[k])],
                      grid_divisor_ |->
                          [k \in 1..3 |-> EvalExpr(c, builder.grid_divisors_[k])]]]

\* RawKernel::launch, the grid size: the outcomes [by_zero, trap, grid_size]. A
\* division of unsigned integers by zero is undefined: the build traps, or goes
\* on with some quotient and remainder
RawKernel_grid_size(kernel, problem_size) ==
    IF \E k \in 1..3 : kernel.grid_divisor_[k] = 0
    THEN {[by_zero |-> TRUE, trap |-> TRUE, grid_size |-> <<0, 0, 0>>]}
         \cup {[by_zero |-> TRUE, trap |-> FALSE,
                grid_size |-> [k \in 1..3 |->
                                  IF kernel.grid_divisor_[k] = 0 THEN q
                                  ELSE div_ceil(problem_size[k], kernel.grid_divisor_[k])]]
               : q \in 0..1}
    ELSE {[by_zero |-> FALSE, trap |-> FALSE,
           grid_size |-> [k \in 1..3 |->
                             div_ceil(problem_size[k], kernel.grid_divisor_[k])]]}

\* tune_block_size({0, 1, 2}) and tune("tile", {0, 1, 2})
BuilderSpace ==
    [params_ |-> <<TunableParam("block_size_x", <<IntVal(0), IntVal(1), IntVal(2)>>,
                                IntVal(0)),
                   TunableParam("tile", <<IntVal(0), IntVal(1), IntVal(2)>>, IntVal(0))>>,
     restrictions_ |-> <<>>]

\* the expressions given to block_size and grid_divisors
SizeExprs == <<Literal(0), Literal(2), ParamExpr("block_size_x"), ParamExpr("tile")>>

\* the expressions given to assertion
AssertionExprs ==
    <<[op |-> "<=", lhs |-> "block_size_x", rhs |-> "tile"],
      [op |-> "#", lhs |-> "block_size_x", rhs |-> "tile"]>>

\* problem_size.x of a launch, y and z being 1
LaunchSizes == <<0, 1, 3>>

BuilderInit ==
    /\ build = "mod32"
    /\ builder_ = KernelBuilder(BuilderSpace, "kernel")
    /\ config = EmptyConfig
    /\ file = NoFile
    /\ TuneIdle
    /\ IterIdle
    /\ StratIdle
    /\ CacheIdle
    /\ CallIdle
    /\ InternIdle

\* builder.block_size(x)
BuilderBlockSize ==
    /\ call = NoCall
    /\ \E e \in DOMAIN SizeExprs :
          builder_' = KernelBuilder_block_size(builder_, SizeExprs[e])
    /\ UNCHANGED <<internVars, build, config, file, callVars, tuneVars, iterVars, stratVars, cacheVars>>

\* builder.grid_divisors(x)
BuilderGridDivisors ==
    /\ call = NoCall
    /\ \E e \in DOMAIN SizeExprs :
          builder_' = KernelBuilder_grid_divisors(builder_, SizeExprs[e])
    /\ UNCHANGED <<internVars, build, config, file, callVars, tuneVars, iterVars, stratVars, cacheVars>>

\* builder.assertion(fun)
BuilderAssertion ==
    /\ call = NoCall
    /\ Len(builder_.assertions_) < MaxAssertions
    /\ \E e \in DOMAIN AssertionExprs :
          builder_' = KernelBuilder_assertion(builder_, AssertionExprs[e])
    /\ UNCHANGED <<internVars, build, config, file, callVars, tuneVars, iterVars, stratVars, cacheVars>>

\* builder.compile(config, parameter_types, compiler) with a config over the
\* parameters of the builder
BuilderCompile ==
    /\ \E x, t \in DOMAIN BuilderSpace.params_[1].values :
          LET c == Config_insert(
                       Config_insert(EmptyConfig, BuilderSpace.params_[1],
                                     BuilderSpace.params_[1].values[x]),
                       BuilderSpace.params_[2], BuilderSpace.params_[2].values[t])
              r == KernelBuilder_compile(builder_, c)
          IN  /\ call' = [name |-> "compile", config |-> c]
              /\ result' = [thrown |-> r.thrown, what |-> r.what,
                            submitted |-> r.submitted]
              /\ compiled' = r.kernel
    /\ UNCHANGED <<internVars, sharedVars, tuneVars, iterVars, stratVars, cacheVars>>

\* builder.iterate().next(config) returns true: the config that get decoded from
\* an index with the restrictions passing
BuilderNext ==
    /\ \E index \in 0..(ConfigSpace_size(SpaceOf(builder_)) - 1) :
          LET got == ConfigSpace_get(SpaceOf(builder_), index, config)
          IN  /\ got.ok
              /\ config' = got.config
              /\ call' = [name |-> "next", index |-> index]
              /\ result' = [ret |-> "true"]
    /\ UNCHANGED <<internVars, build, builder_, file, compiled, tuneVars, iterVars, stratVars,
                   cacheVars>>

\* kernel.launch(stream, problem_size, args) on the RawKernel of the last compile
BuilderLaunch ==
    /\ compiled.compiled
    /\ \E s \in DOMAIN LaunchSizes :
          \E g \in RawKernel_grid_size(compiled, <<LaunchSizes[s], 1, 1>>) :
              /\ call' = [name |-> "launch", problem_size |-> <<LaunchSizes[s], 1, 1>>]
              /\ result' = g
    /\ UNCHANGED <<internVars, compiled, sharedVars, tuneVars, iterVars, stratVars, cacheVars>>

NextBuilder ==
    \/ BuilderBlockSize
    \/ BuilderGridDivisors
    \/ BuilderAssertion
    \/ BuilderCompile
    \/ BuilderNext
    \/ BuilderLaunch

SpecBuilder == BuilderInit /\ [][NextBuilder]_vars

(***************************************************************************)
(* A KernelResults on its own: add, collect and reset in any order.        *)
(***************************************************************************)
\* the problem sizes of the samples: the product of the second fills a word of
\* DimBits bits
SampleSizes ==
    <<[x |-> 1, y |-> 1, z |-> 1], [x |-> 2 ^ (DimBits - 2), y |-> 4, z |-> 1],
      [x |-> 3, y |-> 1, z |-> 2]>>

AggregatorInit ==
    /\ state_ = "uninitialized"
    /\ yielded = 0
    /\ current_config_ = 0
    /\ current_kernel_ = EmptyKernel
    /\ best_performance_ = InitialBestPerformance
    /\ best_kernel_ = EmptyKernel
    /\ current_problem_ = NoProblem
    /\ called = NoProblem
    /\ records_ = <<>>
    /\ aggregator_ \in AggregatorSettings
    /\ after_event_ = FALSE
    /\ ops = <<>>
    /\ launched = NoLaunch
    /\ thrown = FALSE
    /\ handed = <<>>
    /\ build = "mod32"
    /\ builder_ = Builder(SmallSpace, "kernel")
    /\ config = EmptyConfig
    /\ file = NoFile
    /\ IterIdle
    /\ StratIdle
    /\ CacheIdle
    /\ CallIdle
    /\ InternIdle

\* aggregator.add(problem_size, time)
AggregatorAdd ==
    /\ Len(records_) < MaxSamples
    /\ \E s \in DOMAIN SampleSizes :
          \E time \in Times :
              /\ records_' = KernelResults_add(records_, SampleSizes[s], time)
              /\ call' = [name |-> "add"]
              /\ result' = NoCall
    /\ UNCHANGED <<internVars, state_, best_performance_, best_kernel_, current_config_,
                   current_kernel_, current_problem_, aggregator_, after_event_, yielded,
                   called, ops, launched, thrown, handed, compiled,
                   sharedVars, iterVars, stratVars, cacheVars>>

\* aggregator.collect(performance): records_ is left sorted
AggregatorCollect ==
    /\ \E c \in KernelResults_collect(records_, aggregator_) :
          /\ records_' = c.records_
          /\ call' = [name |-> "collect", records |-> records_]
          /\ result' = [ok |-> c.ok, performance |-> c.performance]
    /\ UNCHANGED <<internVars, state_, best_performance_, best_kernel_, current_config_,
                   current_kernel_, current_problem_, aggregator_, after_event_, yielded,
                   called, ops, launched, thrown, handed, compiled,
                   sharedVars, iterVars, stratVars, cacheVars>>

\* aggregator.reset()
AggregatorReset ==
    /\ records_ # <<>>
    /\ records_' = <<>>
    /\ call' = [name |-> "reset"]
    /\ result' = NoCall
    /\ UNCHANGED <<internVars, state_, best_performance_, best_kernel_, current_config_,
                   current_kernel_, current_problem_, aggregator_, after_event_, yielded,
                   called, ops, launched, thrown, handed, compiled,
                   sharedVars, iterVars, stratVars, cacheVars>>

NextAggregator == AggregatorAdd \/ AggregatorCollect \/ AggregatorReset

SpecAggregator == AggregatorInit /\ [][NextAggregator]_vars

(***************************************************************************)
(* A LimitStrategy that a caller keeps calling: init, then submit again    *)
(* and again, also after a call has returned false.                        *)
(***************************************************************************)
\* LimitStrategy(max_eval, RandomStrategy()) and
\* LimitStrategy(max_eval, HillClimbingStrategy(RandomStrategy()))
LimitInit ==
    /\ build = "mod32"
    /\ \E space \in {SmallSpace, RadixSpace} : builder_ = Builder(space, "kernel")
    /\ config = EmptyConfig
    /\ file = NoFile
    /\ \E shape \in {<<1>>, <<1, 2>>} :
          \E max_eval \in 0..MaxSubmits : strategy = Construct(shape, max_eval)
    /\ strat_ret = "none"
    /\ strat_via = "none"
    /\ trues = 0
    /\ calls = 0
    /\ Len(strategy) = 3 => builder_ = Builder(SmallSpace, "kernel")
    /\ TuneIdle
    /\ IterIdle
    /\ CacheIdle
    /\ CallIdle
    /\ InternIdle

\* strategy.init(builder, config); trues counts the submit calls that returned
\* true since
LimitCallInit ==
    /\ strat_ret = "none"
    /\ \E r \in Strategy_init([st |-> strategy, config |-> EmptyConfig,
                               file |-> file, ret |-> "none", via |-> "none",
                               asked |-> {}, proposed |-> EmptyConfig],
                              1, builder_, build) :
          /\ strategy' = r.st
          /\ config' = r.config
          /\ strat_ret' = r.ret
          /\ strat_via' = r.via
    /\ trues' = 0
    /\ calls' = 0
    /\ UNCHANGED <<internVars, build, builder_, file, tuneVars, iterVars, cacheVars, callVars>>

\* strategy.submit(performance, config), whatever the last call returned
LimitCallSubmit ==
    /\ strat_ret \in {"true", "false"}
    /\ calls < MaxSubmits
    /\ \E k \in DOMAIN SubmitPerformances :
          \E r \in Strategy_submit([st |-> strategy, config |-> config, file |-> file,
                                    ret |-> "none", via |-> "none", asked |-> {},
                                    proposed |-> EmptyConfig],
                                   1, SubmitPerformances[k], build) :
              /\ strategy' = r.st
              /\ config' = r.config
              /\ strat_ret' = r.ret
              /\ strat_via' = r.via
              /\ trues' = IF r.ret = "true" THEN trues + 1 ELSE trues
    /\ calls' = calls + 1
    /\ UNCHANGED <<internVars, build, builder_, file, tuneVars, iterVars, cacheVars, callVars>>

NextLimit == LimitCallInit \/ LimitCallSubmit

SpecLimit == LimitInit /\ [][NextLimit]_vars

(***************************************************************************)
(* ConfigSpace::tune: the five overloads and create_param.                 *)
(***************************************************************************)
\* ConfigSpace::create_param: [thrown, params_]
ConfigSpace_create_param(params, name, values, default_value) ==
    IF \E k \in DOMAIN params : params[k].name = name
    THEN [thrown |-> TRUE, params_ |-> params]
    ELSE [thrown |-> FALSE,
          params_ |-> Append(params, TunableParam(name, values, default_value))]

\* tune(name, begin, end, default_value): the values of the range are copied
\* one by one, then create_param
ConfigSpace_tuneRange(params, name, values, default_value) ==
    ConfigSpace_create_param(params, name,
                             [i \in 1..Len(values) |-> values[i]], default_value)

\* tune(name, values): KERNEL_LAUNCHER_ASSERT(values.begin() != values.end()),
\* then tune(name, values, *values.begin())
ConfigSpace_tuneValues(params, name, values) ==
    IF values = <<>> THEN [thrown |-> TRUE, params_ |-> params]
    ELSE ConfigSpace_tuneRange(params, name, values, values[1])

\* the overloads: "range" (name, begin, end, default), "collection_default"
\* and "list_default" (name, values, default), "collection" and "list"
\* (name, values)
Overloads == {"range", "collection_default", "collection", "list_default", "list"}

ConfigSpace_tune(params, overload, name, values, default_value) ==
    IF overload \in {"collection", "list"}
    THEN ConfigSpace_tuneValues(params, name, values)
    ELSE ConfigSpace_tuneRange(params, name, values, default_value)

\* the names, value lists and defaults tune is called with
TuneNames == {"foo", "bar", "baz"}

TuneValues == {<<>>, <<IntVal(1)>>, <<IntVal(1), IntVal(2)>>}

TuneDefaults == {IntVal(1), IntVal(2)}

\* ConfigSpace(): no parameter, no restriction
CreateInit ==
    /\ build = "mod32"
    /\ builder_ = Builder([params_ |-> <<>>, restrictions_ |-> <<>>], "kernel")
    /\ config = EmptyConfig
    /\ file = NoFile
    /\ TuneIdle
    /\ IterIdle
    /\ StratIdle
    /\ CacheIdle
    /\ CallIdle
    /\ InternIdle

\* space.tune(...) through one of the overloads
CreateTune ==
    /\ Len(builder_.params_) < MaxParams
    /\ \E overload \in Overloads, name \in TuneNames, values \in TuneValues :
          \E default_value \in (IF overload \in {"collection", "list"}
                                THEN {EmptyVal} ELSE TuneDefaults) :
              LET r == ConfigSpace_tune(builder_.params_, overload, name, values,
                                        default_value)
              IN  /\ call' = [name |-> "tune", overload |-> overload, param |-> name,
                              values |-> values, before |-> builder_.params_]
                  /\ result' = [thrown |-> r.thrown]
                  /\ builder_' = [builder_ EXCEPT !.params_ = r.params_]
    /\ UNCHANGED <<internVars, compiled, build, config, file, tuneVars, iterVars, stratVars,
                   cacheVars>>

NextCreate == CreateTune

SpecCreate == CreateInit /\ [][NextCreate]_vars

(***************************************************************************)
(* RawKernel::launch: the grid size, over the whole range of unsigned int  *)
(* in x and over its ends in y and z.                                      *)
(***************************************************************************)
\* the values of the y and z components: the least and the largest
EdgeValues == {1, 2 ^ DimBits - 1}

\* a builder whose grid divisors are literals
GridInit ==
    /\ build = "mod32"
    /\ \E dx \in 0..(2 ^ DimBits - 1), dy, dz \in EdgeValues :
          builder_ = [KernelBuilder(BuilderSpace, "kernel")
                         EXCEPT !.grid_divisors_ = <<Literal(dx), Literal(dy), Literal(dz)>>]
    /\ config = DefaultsFrom(BuilderSpace.params_, 1, EmptyConfig)
    /\ file = NoFile
    /\ TuneIdle
    /\ IterIdle
    /\ StratIdle
    /\ CacheIdle
    /\ CallIdle
    /\ InternIdle

\* builder.compile(config, parameter_types, compiler)
GridCompile ==
    /\ ~compiled.compiled
    /\ LET r == KernelBuilder_compile(builder_, config)
       IN  /\ call' = [name |-> "compile", config |-> config]
           /\ result' = [thrown |-> r.thrown, what |-> r.what, submitted |-> r.submitted]
           /\ compiled' = r.kernel
    /\ UNCHANGED <<internVars, sharedVars, tuneVars, iterVars, stratVars, cacheVars>>

\* kernel.launch(stream, problem_size, args)
GridLaunch ==
    /\ compiled.compiled
    /\ \E px \in 0..(2 ^ DimBits - 1), py, pz \in EdgeValues :
          \E g \in RawKernel_grid_size(compiled, <<px, py, pz>>) :
              /\ call' = [name |-> "launch", problem_size |-> <<px, py, pz>>]
              /\ result' = g
    /\ UNCHANGED <<internVars, compiled, sharedVars, tuneVars, iterVars, stratVars, cacheVars>>

NextGrid == GridCompile \/ GridLaunch

SpecGrid == GridInit /\ [][NextGrid]_vars

(***************************************************************************)
(* TunableValue: construction from an integer or a bool, to<T>() for the   *)
(* integer types T, and operator==.                                        *)
(***************************************************************************)
\* the integer types of FOR_INTEGER, by signedness and width
IntTypes == {"char", "uchar", "int", "uint", "longlong", "ulonglong"}

IsSigned(T) == T \in {"char", "int", "longlong"}

BitsOf(T) ==
    IF T \in {"char", "uchar"} THEN ValueBits - 2
    ELSE IF T \in {"int", "uint"} THEN ValueBits - 1
    ELSE ValueBits

\* std::numeric_limits<T>::min() and max()
NumericMin(T) == IF IsSigned(T) THEN 0 - 2 ^ (BitsOf(T) - 1) ELSE 0

NumericMax(T) == IF IsSigned(T) THEN 2 ^ (BitsOf(T) - 1) - 1 ELSE 2 ^ BitsOf(T) - 1

\* the conversion of an integer to intmax_t: modulo 2^ValueBits
ToIntmax(i) ==
    LET m == i % (2 ^ ValueBits)
    IN  IF m >= 2 ^ (ValueBits - 1) THEN m - 2 ^ ValueBits ELSE m

\* the conversion of an integer to uintmax_t (std::make_unsigned_t)
ToUintmax(i) == i % (2 ^ ValueBits)

BoolVal(b) == [type |-> "bool", v |-> b]

\* TunableValue(type i) : type_(type_int), int_val_(i)
TunableValue_fromInteger(i) == IntVal(ToIntmax(i))

\* cmp_less(left, right), the overload chosen by the signedness of the operands
cmp_less(left_signed, left, right_signed, right) ==
    IF left_signed = right_signed THEN left < right
    ELSE IF left_signed THEN left < 0 \/ ToUintmax(left) < right
    ELSE right >= 0 /\ left < ToUintmax(right)

\* in_range<R>(val) for val of type intmax_t
in_range(R, val) ==
    /\ ~cmp_less(TRUE, val, IsSigned(R), NumericMin(R))
    /\ ~cmp_less(IsSigned(R), NumericMax(R), TRUE, val)

\* TunableValue::to_<type>(): [thrown, v]
TunableValue_to(T, val) ==
    IF val.type = "bool" THEN [thrown |-> FALSE, v |-> IF val.v THEN 1 ELSE 0]
    ELSE IF val.type = "int" /\ in_range(T, val.v) THEN [thrown |-> FALSE, v |-> val.v]
    ELSE [thrown |-> TRUE, v |-> 0]

ValueInit ==
    /\ build = "mod32"
    /\ builder_ = Builder(SmallSpace, "kernel")
    /\ config = EmptyConfig
    /\ file = NoFile
    /\ TuneIdle
    /\ IterIdle
    /\ StratIdle
    /\ CacheIdle
    /\ CallIdle
    /\ InternIdle

\* TunableValue(v).to<T>() for v of the integer type S
ValueFromInteger ==
    /\ call = NoCall
    /\ \E S \in IntTypes, T \in IntTypes :
          \E v \in NumericMin(S)..NumericMax(S) :
              /\ call' = [name |-> "to", from |-> S, v |-> v, to |-> T]
              /\ result' = TunableValue_to(T, TunableValue_fromInteger(v))
    /\ UNCHANGED <<internVars, compiled, sharedVars, tuneVars, iterVars, stratVars, cacheVars>>

\* TunableValue(b).to<T>() for a bool b
ValueFromBool ==
    /\ call = NoCall
    /\ \E b \in BOOLEAN, T \in IntTypes :
          /\ call' = [name |-> "to", from |-> "bool", b |-> b, to |-> T]
          /\ result' = TunableValue_to(T, BoolVal(b))
    /\ UNCHANGED <<internVars, compiled, sharedVars, tuneVars, iterVars, stratVars, cacheVars>>

\* TunableValue(i) == TunableValue(b) for an int i and a bool b
ValueEquals ==
    /\ call = NoCall
    /\ \E i \in 0..1, b \in BOOLEAN :
          /\ call' = [name |-> "==", i |-> i, b |-> b]
          /\ result' = [ret |-> TunableValue_eq(TunableValue_fromInteger(i), BoolVal(b))]
    /\ UNCHANGED <<internVars, compiled, sharedVars, tuneVars, iterVars, stratVars, cacheVars>>

NextValue == ValueFromInteger \/ ValueFromBool \/ ValueEquals

SpecValue == ValueInit /\ [][NextValue]_vars

(***************************************************************************)
(* Config as std::unordered_map<TunableParam, TunableValue>: insert, at,   *)
(* operator== and std::hash<Config>, over parameter instances.             *)
(***************************************************************************)
\* TunableParam instances: inner_.get() is the address of the shared Impl. x
\* and z have the same name, type, values and default
ParamInstances ==
    <<[inner_ |-> 8, name |-> "x", values |-> <<IntVal(1), IntVal(2)>>],
      [inner_ |-> 16, name |-> "y", values |-> <<BoolVal(TRUE), BoolVal(FALSE)>>],
      [inner_ |-> 24, name |-> "x", values |-> <<IntVal(1), IntVal(2)>>]>>

\* two parameters taken as equal when their names are
TunableParam_eqByName(p, q) == p.name = q.name

\* TunableParam::operator==: inner_.get() == that.inner_.get()
TunableParam_eq(p, q) == p.inner_ = q.inner_

\* TunableParam::hash: (size_t) inner_.get()
TunableParam_hash(p) == p.inner_

\* TunableValue::hash for an int and a bool
TunableValue_hash(val) ==
    IF val.type = "int" THEN val.v
    ELSE IF val.type = "bool" THEN (IF val.v THEN 1 ELSE 0)
    ELSE 0

RECURSIVE Xor(_, _)
\* a ^ b on size_t
Xor(a, b) ==
    IF a = 0 THEN b
    ELSE IF b = 0 THEN a
    ELSE (((a % 2) + (b % 2)) % 2) + 2 * Xor(a \div 2, b \div 2)

\* unordered_map::find: the place of the entry whose key equals p, 0 for end()
Map_find(entries, p) ==
    IF \E i \in DOMAIN entries : TunableParam_eq(entries[i].first, p)
    THEN CHOOSE i \in DOMAIN entries : TunableParam_eq(entries[i].first, p)
    ELSE 0

\* Config::insert on the map of instances: inner_[p] = v
Config_insertInstance(entries, p, val) ==
    LET i == Map_find(entries, p)
    IN  IF i = 0 THEN Append(entries, [first |-> p, second |-> val])
        ELSE [entries EXCEPT ![i] = [first |-> p, second |-> val]]

\* Config::at: [thrown, place]
Config_at(entries, p) ==
    LET i == Map_find(entries, p)
    IN  [thrown |-> i = 0, place |-> i]

\* Config::operator==: unordered_map equality, the sizes and then every entry
\* of the one looked up in the other
Config_eq(this, that) ==
    /\ Len(this) = Len(that)
    /\ \A i \in DOMAIN this :
          LET j == Map_find(that, this[i].first)
          IN  j # 0 /\ TunableValue_eq(this[i].second, that[j].second)

RECURSIVE HashLoop(_, _, _)
\* std::hash<Config>: hash ^= p.first.hash() ^ p.second.hash() from entry k on
HashLoop(entries, k, hash) ==
    IF k > Len(entries) THEN hash
    ELSE HashLoop(entries, k + 1,
                  Xor(hash, Xor(TunableParam_hash(entries[k].first),
                                TunableValue_hash(entries[k].second))))

Config_hash(entries) == HashLoop(entries, 1, 0)

RECURSIVE InsertAll(_, _, _)
\* the Config after the inserts ps[k], vs[k] (places in ParamInstances and in
\* the values of the parameter) from k on
InsertAll(entries, ps, vs) ==
    IF ps = <<>> THEN entries
    ELSE InsertAll(Config_insertInstance(entries, ParamInstances[Head(ps)],
                                         ParamInstances[Head(ps)].values[Head(vs)]),
                   Tail(ps), Tail(vs))

\* Config(): no entry
ConfigInit ==
    /\ build = "mod32"
    /\ builder_ = Builder(SmallSpace, "kernel")
    /\ config = <<>>
    /\ file = NoFile
    /\ TuneIdle
    /\ IterIdle
    /\ StratIdle
    /\ CacheIdle
    /\ CallIdle
    /\ InternIdle

\* config.insert(p, v) with a value of p
ConfigInsert ==
    /\ call = NoCall
    /\ calls < MaxInserts
    /\ \E p \in DOMAIN ParamInstances, v \in 1..2 :
          config' = InsertAll(config, <<p>>, <<v>>)
    /\ calls' = calls + 1
    /\ UNCHANGED <<internVars, build, builder_, file, callVars, strategy, strat_ret, strat_via,
                   trues, tuneVars, iterVars, cacheVars>>

\* config == that and the hashes of both, for a Config that was filled by
\* inserts of its own
ConfigEquals ==
    /\ call = NoCall
    /\ \E n \in 0..MaxInserts :
          \E ps \in [1..n -> DOMAIN ParamInstances], vs \in [1..n -> 1..2] :
              LET that == InsertAll(<<>>, ps, vs)
              IN  /\ call' = [name |-> "==", that |-> that]
                  /\ result' = [ret |-> Config_eq(config, that),
                                hash |-> Config_hash(config),
                                that_hash |-> Config_hash(that)]
    /\ UNCHANGED <<internVars, compiled, sharedVars, tuneVars, iterVars, stratVars, cacheVars>>

\* config[p]
ConfigAt ==
    /\ call = NoCall
    /\ \E p \in DOMAIN ParamInstances :
          /\ call' = [name |-> "at", param |-> ParamInstances[p].inner_]
          /\ result' = Config_at(config, ParamInstances[p])
    /\ UNCHANGED <<internVars, compiled, sharedVars, tuneVars, iterVars, stratVars, cacheVars>>

NextConfig == ConfigInsert \/ ConfigEquals \/ ConfigAt

SpecConfig == ConfigInit /\ [][NextConfig]_vars

(***************************************************************************)
(* intern_string, called by several threads. A string is the sequence of   *)
(* its characters up to the terminator; a std::string that make_unique     *)
(* allocated is an address of the heap, and its c_str() is at that address. *)
(***************************************************************************)
\* the arguments: "a", "b" and "ab"
CStrings == <<<<97>>, <<98>>, <<97, 98>>>>

\* the keys compared as pointers
equalPointers(a, b, a_address, b_address) == a_address = b_address

\* equal: strcmp(a, b) == 0
equal(a, b, a_address, b_address) == a = b

RECURSIVE hash(_, _)
\* hash: h = h * 31 + *v for every character, in size_t, from h on
hash(v, h) ==
    IF v = <<>> THEN h
    ELSE hash(Tail(v), (h * 31 + Head(v)) % (2 ^ HashBits))

\* table.find(input): the place of the first node of the bucket of input whose
\* key is equal to it, 0 for end(); the argument is at no address of the heap
Table_find(nodes, objects, v) ==
    LET Match(i) == /\ hash(objects[nodes[i].key], 0) = hash(v, 0)
                    /\ equal(objects[nodes[i].key], v, nodes[i].key, 0)
    IN  IF \E i \in DOMAIN nodes : Match(i)
        THEN CHOOSE i \in DOMAIN nodes : Match(i) /\ \A j \in 1..(i - 1) : ~Match(j)
        ELSE 0

InternInit ==
    /\ build = "mod32"
    /\ builder_ = Builder(SmallSpace, "kernel")
    /\ config = EmptyConfig
    /\ file = NoFile
    /\ TuneIdle
    /\ IterIdle
    /\ StratIdle
    /\ CacheIdle
    /\ CallIdle
    /\ InternIdle

\* a thread calls intern_string(input)
InternCall(t) ==
    /\ pc[t] = "idle"
    /\ Len(interned[t]) < MaxInterns
    /\ \E s \in DOMAIN CStrings : input' = [input EXCEPT ![t] = CStrings[s]]
    /\ pc' = [pc EXCEPT ![t] = "guard"]
    /\ UNCHANGED <<table, heap, lock, it, interned>>

\* std::lock_guard<std::mutex> guard(lock): blocks while another thread holds it
InternGuard(t) ==
    /\ pc[t] = "guard"
    /\ lock = 0
    /\ lock' = t
    /\ pc' = [pc EXCEPT ![t] = "find"]
    /\ UNCHANGED <<table, heap, input, it, interned>>

\* auto it = table.find(input)
InternFind(t) ==
    /\ pc[t] = "find"
    /\ it' = [it EXCEPT ![t] = Table_find(table, heap, input[t])]
    /\ pc' = [pc EXCEPT ![t] = IF it'[t] = 0 THEN "insert" ELSE "return"]
    /\ UNCHANGED <<table, heap, lock, input, interned>>

\* value = std::make_unique<std::string>(input); key = value->c_str();
\* it = table.insert(std::make_pair(key, std::move(value))).first: a pair that
\* is not inserted is destroyed with its string
InternInsert(t) ==
    /\ pc[t] = "insert"
    /\ LET value == Len(heap) + 1
           objects == Append(heap, input[t])
           found == Table_find(table, objects, input[t])
       IN  IF found = 0
           THEN /\ heap' = objects
                /\ table' = Append(table, [key |-> value, second |-> value])
                /\ it' = [it EXCEPT ![t] = Len(table) + 1]
           ELSE /\ heap' = heap
                /\ table' = table
                /\ it' = [it EXCEPT ![t] = found]
    /\ pc' = [pc EXCEPT ![t] = "return"]
    /\ UNCHANGED <<lock, input, interned>>

\* return *(it->second.get()), the guard releasing the mutex
InternReturn(t) ==
    /\ pc[t] = "return"
    /\ interned' = [interned EXCEPT
                       ![t] = Append(@, [input |-> input[t],
                                         reference |-> table[it[t]].second])]
    /\ lock' = 0
    /\ pc' = [pc EXCEPT ![t] = "idle"]
    /\ UNCHANGED <<table, heap, input, it>>

NextIntern ==
    \E t \in Threads :
        /\ \/ InternCall(t)
           \/ InternGuard(t)
           \/ InternFind(t)
           \/ InternInsert(t)
           \/ InternReturn(t)
        /\ UNCHANGED <<tuneVars, sharedVars, iterVars, stratVars, cacheVars, callVars>>

SpecIntern == InternInit /\ [][NextIntern]_vars

(***************************************************************************)
(* The session with an application that keeps calling launch and           *)
(* compilations that end: the strategy of StrategySubmit yields at most    *)
(* MaxYields configurations.                                               *)
(***************************************************************************)
SpecLive == Init /\ [][Next]_vars /\ WF_vars(Launch) /\ WF_vars(CompileFinish)


(***************************************************************************)
(* A CachingStrategy over a RandomStrategy, on a builder of either kind and *)
(* on a cache file that earlier processes may have left with records.      *)
(***************************************************************************)
\* the builders of the sessions: integer values, and string values that hold
\* the separator of the cache key
CachingBuilders == <<Builder(SmallSpace, "kernel"), Builder(PipeSpace, "kernel")>>

\* CachingStrategy(filename): inner_ is the default, RandomStrategy {}
CachingShapes == <<<<3>>>>

\* the performances of the records an earlier process appended
StoredPerformances == {Perf(1, 1), Perf(2, 1)}

RECURSIVE StoredFiles(_, _)
\* the file as earlier processes left it: created by initialize for the
\* builder, then at most n records appended
StoredFiles(builder, n) ==
    IF n = 0 THEN {TuningCache_initialize(NoFile, builder).file}
    ELSE LET shorter == StoredFiles(builder, n - 1)
         IN  shorter \cup
             {TuningCache_append(TuningCache_initialize(f, builder).cache, f, c, p).file
              : <<f, c, p>> \in shorter \X ValidConfigs(SpaceOf(builder))
                                \X StoredPerformances}

CachingInit ==
    /\ build = "mod32"
    /\ \E b \in DOMAIN CachingBuilders : builder_ = CachingBuilders[b]
    /\ config = EmptyConfig
    /\ file \in {NoFile} \cup StoredFiles(builder_, MaxStored)
    /\ \E s \in DOMAIN CachingShapes : strategy = Construct(CachingShapes[s], 0)
    /\ strat_ret = "none"
    /\ strat_via = "none"
    /\ trues = 0
    /\ calls = 0
    /\ TuneIdle
    /\ IterIdle
    /\ CacheIdle
    /\ CallIdle
    /\ InternIdle

SpecCaching == CachingInit /\ [][NextStrategy]_vars
(***************************************************************************)
(* Claims about the tuning state machine.                                  *)
(***************************************************************************)
\* a is a higher performance than b (both numbers)
Higher(a, b) == ~IsNaN(a) /\ ~IsNaN(b) /\ a.n * b.d > b.n * a.d

HandedNumbers == {i \in DOMAIN handed : ~IsNaN(handed[i].performance)}

OpNames(o) == [i \in DOMAIN o |-> o[i].op]

\* C1: when the session is Finished, the retained best module is the one compiled
\* for the configuration with the highest performance handed to the strategy, and
\* the launches made in Finished use that module.
C1_BestIsHighest ==
    state_ = "finished" =>
        /\ \A i \in HandedNumbers :
              ~Higher(handed[i].performance, best_performance_)
        /\ HandedNumbers # {} =>
              \E i \in HandedNumbers :
                  /\ handed[i].cfg = best_kernel_.cfg
                  /\ handed[i].performance = best_performance_
        /\ launched # NoLaunch => launched.cfg = best_kernel_.cfg

\* C2: once Finished, a launch call stays in Finished, its only operation is
\* best_kernel_.launch (no compilation, no event record or synchronize, no
\* aggregator update, no strategy call), and it enqueues the retained best module.
C2_FinishedOnlyLaunchesBest ==
    [][state_ = "finished" =>
          /\ state_' = "finished"
          /\ ops'[1].op = "launch_best"
          /\ \A i \in DOMAIN ops' : ops'[i].op \in {"launch_best", "throw"}
          /\ records_' = records_
          /\ handed' = handed
          /\ yielded' = yielded
          /\ after_event_' = after_event_
          /\ best_performance_' = best_performance_
          /\ current_kernel_' = current_kernel_
          /\ best_kernel_.module_ =>
                /\ ~thrown'
                /\ best_kernel_' = best_kernel_
                /\ launched' = [cfg |-> best_kernel_.cfg, problem_size |-> called']
    ]_vars

\* C2 witness: a launch call made entirely in Finished enqueued the best module
C2_Witness ==
    /\ state_ = "finished"
    /\ OpNames(ops) = <<"launch_best">>
    /\ ops[1].in = "finished"
    /\ best_kernel_.cfg # 0
    /\ launched.cfg = best_kernel_.cfg

\* the dispatch C3 is about: Compiling, current module not ready, a best module exists
FallbackCase ==
    /\ state_ = "compiling"
    /\ ~current_kernel_.ready_
    /\ current_kernel_.fut \notin {"ok", "failed"}
    /\ best_kernel_.cfg # 0

C4_CompileFailureContained ==
    thrown => \A i \in DOMAIN ops : ops[i].op \notin {"compile", "launch_current"}

\* C5: best_performance_ never decreases.
C5_BestNeverDecreases == [][~Higher(best_performance_, best_performance_')]_vars

\* C5 witness: a performance below the best was handed to the strategy after
\* the best one, and the best stayed
C5_Witness ==
    /\ Len(handed) >= 2
    /\ Higher(best_performance_, handed[Len(handed)].performance)
    /\ Higher(best_performance_, InitialBestPerformance)

(***************************************************************************)
(* Claims about ConfigIterator.                                            *)
(***************************************************************************)
\* C6: for a space of size n > 0, successive calls of next return true exactly
\* once for each index in [0, n) whose configuration passes the restrictions,
\* never yield an invalid or an already yielded configuration, and return false
\* on every call after the last valid configuration was yielded. As a predicate
\* of the state after a call: the call returned; no index was yielded twice; a
\* yielded index is valid and config is its configuration; false was returned
\* only with every valid index yielded; and a valid index that was not yielded
\* yet is not taken as visited, since a later call could not yield it.
C6_EachValidOnce ==
    LET space == SpaceOf(builder_)
    IN  /\ iter_ret # "hang"
        /\ \A index \in DOMAIN yield_count : yield_count[index] <= 1
        /\ iter_ret = "true" =>
              /\ iter_index \in ValidIndices(space)
              /\ config = ConfigSpace_get(space, iter_index, EmptyConfig).config
        /\ iter_ret = "false" =>
              \A index \in ValidIndices(space) : yield_count[index] = 1
        /\ \A index \in ValidIndices(space) :
              yield_count[index] = 0 => index \in Unvisited(iter_, build)

(***************************************************************************)
(* Claims about the strategies.                                            *)
(***************************************************************************)
\* C7: LimitStrategy(k, inner) returns true at most k times in total, counted
\* over init and all submit calls of a session: a strategy whose outermost layer
\* is a LimitStrategy has yielded at most max_eval_ configurations.
C7_LimitTotal ==
    (strategy # <<>> /\ strategy[1].kind = "Limit") => trues <= strategy[1].max_eval_

LastAppended(c) ==
    LET ks == {k \in DOMAIN appended : appended[k].config = c}
    IN  IF ks = {} THEN <<>>
        ELSE <<appended[CHOOSE k \in ks : \A j \in ks : j <= k].performance>>

\* C9: after append(c, p), find(c) returns true with performance p (the p of the
\* last append of c), immediately on the appending object and on any object that
\* later opens the same file with the same builder: a find of a configuration
\* that was appended, made on an object that initialize returned from, is found
\* with the performance of its last append.
C9_AppendThenFind ==
    (find_ret # NoFind /\ LastAppended(find_ret.config) # <<>>) =>
        /\ find_ret.found
        /\ find_ret.answer = LastAppended(find_ret.config)[1]

\* the records an initialize has read that no other of them exceeds
BestSeen ==
    {k \in 1..open_ret.seen :
        \A j \in 1..open_ret.seen :
            ~DoubleGt(appended[j].performance, appended[k].performance)}

\* C10: after any sequence of appends, reopening the cache returns as initial
\* best the configuration of the record with the maximum performance, and it
\* reports "no prior best" exactly when the file holds no record (a file that
\* the open itself created included).
C10_ReopenBest ==
    cache.initialized_ =>
        /\ ~open_ret.thrown
        /\ open_ret.ret <=> open_ret.seen > 0
        /\ open_ret.ret => \E k \in BestSeen : open_ret.best_config = appended[k].config

(***************************************************************************)
(* Claims about opening a cache file found on disk.                        *)
(***************************************************************************)
\* the header on disk is the one an open for the builder writes
OwnHeader ==
    /\ file.header.magic = "kernel_launcher"
    /\ file.header.version = "0.1"
    /\ file.header.kernel_name = "kernel"
    /\ file.header.device = "device0"
    /\ file.header.parameters = <<"bar", "foo">>

\* C11: opening a cache file never fails because of a whitespace-only line or an
\* unparsable (torn) record: such lines are ignored and every well-formed record
\* is still loaded. After an open of a file with the header of the builder, the
\* open has not thrown and every record of the file is in the cache.
C11_TornLinesIgnored ==
    (cache.initialized_ /\ OwnHeader) =>
        /\ ~open_ret.thrown
        /\ \A k \in DOMAIN file.records :
              ~IsRaw(file.records[k]) =>
                  /\ file.records[k].key \in DOMAIN cache.cache_
                  /\ \E j \in DOMAIN file.records :
                        /\ ~IsRaw(file.records[j])
                        /\ file.records[j].key = file.records[k].key
                        /\ cache.cache_[file.records[k].key] = file.records[j].performance.v

\* C13: opening an existing cache file whose header differs from the builder or
\* the device in magic, version, kernel_name, device or the name-sorted list of
\* parameter names fails and leaves the file unchanged; a header written by open
\* for the same builder and device is accepted whatever the declaration order
\* of the parameters: then the open throws only for a line after the header.
C13_HeaderChecked ==
    [][CacheOpen =>
         /\ ~OwnHeader => (open_ret'.thrown /\ file' = file /\ cache'.cache_ = EmptyCache)
         /\ (OwnHeader /\ \A k \in DOMAIN file.records :
                             IsRaw(file.records[k]) => file.records[k].raw = "")
               => ~open_ret'.thrown]_vars

\* a file with records and a header of another device was opened, and the open
\* has thrown
C13_Witness ==
    /\ cache.initialized_
    /\ file.header.device = "device1"
    /\ Len(file.records) > 0
    /\ open_ret.thrown

(***************************************************************************)
(* Claims about two writers of one cache file.                             *)
(***************************************************************************)
\* C12: for any interleaving of the opens and appends of two uncoordinated
\* processes on one cache file, a later open succeeds and find returns the
\* appended performance for every record whose append completed: the later
\* process has not thrown, and it finds each configuration that was appended
\* before it opened, with a performance that was appended for it.
C12_NoRecordLost ==
    At(Later, "open") =>
        /\ ~open_ret[Later].thrown
        /\ \A k \in 1..open_ret[Later].seen :
              LET f == TuningCache_find(cache[Later], appended[k].config)
              IN  /\ f.found
                  /\ \E j \in 1..open_ret[Later].seen :
                        /\ appended[j].config = appended[k].config
                        /\ appended[j].performance = f.answer

(***************************************************************************)
(* Claims about the members of ConfigSpace.                                *)
(***************************************************************************)
\* config binds exactly the parameters of the space, every value is an entry of
\* the domain of its parameter or its default, and every restriction holds
BindsSpace(space, c) ==
    /\ DOMAIN c = {space.params_[k].name : k \in DOMAIN space.params_}
    /\ \A k \in DOMAIN space.params_ :
          \/ c[space.params_[k].name] = space.params_[k].default_value
          \/ \E j \in DOMAIN space.params_[k].values :
                c[space.params_[k].name] = space.params_[k].values[j]
    /\ \A k \in DOMAIN space.restrictions_ :
          LET r == space.restrictions_[k]
          IN  IF r.op = "<=" THEN c[r.lhs].v <= c[r.rhs].v ELSE c[r.lhs].v # c[r.rhs].v

\* C14: is_valid(c) returns true if and only if c binds exactly the parameters
\* of the space, every bound value is in the domain of its parameter or equals
\* its default, and every restriction is true on c; in every other case it
\* returns false (it does not throw).
C14_IsValidIff ==
    call.name = "is_valid" =>
        /\ result.ret \in {"true", "false"}
        /\ result.ret = "true" <=> BindsSpace(SpaceOf(builder_), call.config)

\* the radix digit of parameter k for an index: the index divided by the sizes
\* of the domains of the parameters declared before k, modulo the size of k
RECURSIVE Digit(_, _, _)
Digit(params, k, index) ==
    IF k = 1 THEN index % Len(params[1].values)
    ELSE Digit([j \in 1..(Len(params) - 1) |-> params[j + 1]], k - 1,
               index \div Len(params[1].values))

\* C15: get(i, out) binds each parameter, in declaration order, to
\* domain[i mod k] and then replaces i by i / k; it leaves this binding in out
\* even when it returns false (what was in out for other names stays), and it
\* returns true exactly when every restriction holds on the decoded binding.
C15_GetDecodes ==
    call.name = "get" =>
        LET params == builder_.params_
            names == {params[k].name : k \in DOMAIN params}
        IN  /\ DOMAIN result.config = DOMAIN call.config \cup names
            /\ \A k \in DOMAIN params :
                  result.config[params[k].name]
                      = params[k].values[Digit(params, k, call.index) + 1]
            /\ result.ok <=>
                  \A k \in DOMAIN builder_.restrictions_ :
                      result.config[builder_.restrictions_[k].lhs].v
                          <= result.config[builder_.restrictions_[k].rhs].v

\* get was called with index 7 on a space with domains of 2 and 3 values and a
\* config that held another binding: it returned false and left foo = 2, bar = 1
C15_Witness ==
    /\ call.name = "get"
    /\ call.index = 7
    /\ Len(builder_.params_) = 2
    /\ Len(builder_.params_[2].values) = 3
    /\ call.config # EmptyConfig
    /\ ~result.ok
    /\ result.config["foo"] = IntVal(2)
    /\ result.config["bar"] = IntVal(1)

\* C16: default_config() binds every parameter to its default value and either
\* fails because a restriction is false on that binding, or returns a
\* configuration that passes is_valid; it never returns a configuration that
\* is_valid rejects.
C16_DefaultIsValid ==
    call.name = "default_config" =>
        \/ result.thrown
        \/ /\ \A k \in DOMAIN builder_.params_ :
                 result.config[builder_.params_[k].name]
                     = builder_.params_[k].default_value
           /\ ConfigSpace_is_valid_call(SpaceOf(builder_), result.config) = "true"

\* C17: for every valid configuration c of a space, load_config(c.to_json())
\* equals c; load_config fails when a bound value is neither an entry of the
\* domain nor the default of its parameter, or when a restriction is false on
\* the decoded binding (and only then).
C17_LoadRoundTrip ==
    call.name = "load_config" =>
        /\ BindsSpace(SpaceOf(builder_), call.config)
              => (~result.thrown /\ result.config = call.config)
        /\ ~BindsSpace(SpaceOf(builder_), call.config) => result.thrown

\* load_config has returned a config that binds a default which is no entry of
\* the domain
C17_Witness ==
    /\ call.name = "load_config"
    /\ ~result.thrown
    /\ result.config = call.config
    /\ DOMAIN result.config = {"foo", "bar"}
    /\ result.config["foo"] = IntVal(0)

\* the product of the sizes of the domains
RECURSIVE ExactProduct(_, _)
ExactProduct(params, k) ==
    IF k > Len(params) THEN 1 ELSE Len(params[k].values) * ExactProduct(params, k + 1)

\* C18: size() returns the exact product of the sizes of the domains whenever
\* that product fits in a word, returns 0 whenever some parameter has an empty
\* domain, and fails with an overflow error instead of returning a wrapped value
\* when the product does not fit.
C18_SizeExact ==
    call.name = "size" =>
        LET product == ExactProduct(builder_.params_, 1)
        IN  IF product < 2 ^ SizeBits
            THEN ~result.thrown /\ result.n = product
            ELSE result.thrown

(***************************************************************************)
(* Claims about KernelBuilder::compile and assertion.                      *)
(***************************************************************************)
\* the value the code evaluates an expression of a block size or grid divisor to
ValueOn(c, e) == IF e.kind = "literal" THEN e.v ELSE c[e.name].v

\* C19: compile(config, ...) rejects the configuration, without submitting
\* anything to the compiler, when an evaluated component of the block size or of
\* the grid divisors is zero; consequently no launch divides a problem size by a
\* zero grid divisor.
C19_ZeroRejected ==
    /\ call.name = "compile" =>
          ((\E k \in 1..3 :
               \/ ValueOn(call.config, builder_.block_size_[k]) = 0
               \/ ValueOn(call.config, builder_.grid_divisors_[k]) = 0)
              => (result.thrown /\ ~result.submitted))
    /\ call.name = "launch" => ~result.by_zero

\* C20: an assertion is a restriction that additionally aborts compilation:
\* compile(config, ...) fails with an assertion failure before the compiler is
\* invoked when an assertion is false on config, and no configuration yielded by
\* the enumeration of the space of the builder makes an assertion false.
C20_AssertionAborts ==
    LET Holds(c, fun) == IF fun.op = "<=" THEN c[fun.lhs].v <= c[fun.rhs].v
                         ELSE c[fun.lhs].v # c[fun.rhs].v
    IN  /\ call.name = "compile" =>
              IF \E k \in DOMAIN builder_.assertions_ :
                     ~Holds(call.config, builder_.assertions_[k])
              THEN result.thrown /\ result.what = "assertion failed" /\ ~result.submitted
              ELSE ~result.thrown /\ result.submitted
        /\ call.name = "next" =>
              \A k \in DOMAIN builder_.assertions_ : Holds(config, builder_.assertions_[k])

\* compile of a config with block_size_x = tile has thrown for the assertion
\* block_size_x # tile without a call of the compiler, on a builder with both
\* assertions
C20_Witness ==
    /\ call.name = "compile"
    /\ Len(builder_.assertions_) = 2
    /\ call.config["block_size_x"] = call.config["tile"]
    /\ result.thrown
    /\ result.what = "assertion failed"
    /\ ~result.submitted

(***************************************************************************)
(* Claims about KernelResults::collect.                                    *)
(***************************************************************************)
\* the sum of the elapsed times of all the samples of s
RECURSIVE TotalElapsed(_)
TotalElapsed(s) == IF s = <<>> THEN 0 ELSE Head(s).t + TotalElapsed(Tail(s))

\* C21: collect() returns true if and only if at least min_evals + num_outliers
\* samples have been added since the last reset and (the total elapsed time of
\* the samples has reached max_seconds or the number of samples has reached
\* max_evals).
C21_CollectIff ==
    call.name = "collect" =>
        (result.ok <=>
            /\ Len(call.records) >= aggregator_.min_evals_ + aggregator_.num_outliers_
            /\ \/ TotalElapsed(call.records) >= aggregator_.max_seconds_
               \/ Len(call.records) >= aggregator_.max_evals_)

\* the sum of the exact products Px * Py * Pz of the samples of s
RECURSIVE TotalProduct(_)
TotalProduct(s) ==
    IF s = <<>> THEN 0
    ELSE Head(s).ps.x * Head(s).ps.y * Head(s).ps.z + TotalProduct(Tail(s))

\* C22: when collect() returns true it has discarded exactly the num_outliers
\* samples with the largest elapsed time and reports performance = (sum of
\* Px*Py*Pz) / (sum of elapsed seconds) over the remaining samples, each
\* workload being the exact product of the three components: the samples split
\* into num_outliers discarded ones and the rest, no discarded one faster than
\* one of the rest, and the performance is the quotient of the sums of the rest.
C22_OutliersAndPerformance ==
    (call.name = "collect" /\ result.ok) =>
        \E out \in SUBSET DOMAIN call.records :
            LET rest == DOMAIN call.records \ out
                Pick(set) == SelectSeq([i \in DOMAIN call.records |->
                                           [ps |-> call.records[i].ps,
                                            t |-> call.records[i].t,
                                            in |-> i \in set]],
                                       LAMBDA r : r.in)
            IN  /\ Cardinality(out) = aggregator_.num_outliers_
                /\ \A i \in out : \A j \in rest : call.records[i].t >= call.records[j].t
                /\ result.performance
                       = Perf(TotalProduct(Pick(rest)), TotalElapsed(Pick(rest)))

(***************************************************************************)
(* Claims about LimitStrategy::submit.                                     *)
(***************************************************************************)
\* C23: after the submit of a LimitStrategy has returned true max_evals times,
\* every later submit returns false, whatever the inner strategy would return.
C23_FalseAfterLimit ==
    [][(LimitCallSubmit /\ trues >= strategy[1].max_eval_)
          => (strat_ret' = "false" /\ trues' = trues)]_vars

\* submit has returned true max_eval_ >= 1 times, and the call after them was
\* turned into false by the LimitStrategy although its inner strategy returned true
C23_Witness ==
    /\ strategy # <<>>
    /\ strategy[1].max_eval_ >= 1
    /\ trues = strategy[1].max_eval_
    /\ calls = trues + 1
    /\ strat_ret = "false"
    /\ strat_via = "Limit"

(***************************************************************************)
(* C24: creating a parameter with an empty value list fails through every  *)
(* tune overload, with or without an explicit default value, and leaves    *)
(* the parameter list of the space unchanged.                              *)
(***************************************************************************)
C24_EmptyDomainFails ==
    (call.name = "tune" /\ call.values = <<>>)
        => (result.thrown /\ builder_.params_ = call.before)

(***************************************************************************)
(* Claims about the grid size of a launch.                                 *)
(***************************************************************************)
\* the least q with q * d >= p
CeilOf(p, d) == CHOOSE q \in 0..p : q * d >= p /\ (q = 0 \/ (q - 1) * d < p)

\* C25: for every problem size and nonzero divisors, all unsigned integers of
\* the width of a dim3 component, the grid used for the launch is exactly
\* (ceil(Px/Dx), ceil(Py/Dy), ceil(Pz/Dz)), also for values close to the top of
\* the range, where an intermediate sum would wrap.
C25_GridIsCeil ==
    (call.name = "launch" /\ \A k \in 1..3 : compiled.grid_divisor_[k] # 0)
        => /\ ~result.by_zero
           /\ \A k \in 1..3 :
                 result.grid_size[k] = CeilOf(call.problem_size[k], compiled.grid_divisor_[k])

\* a launch where problem size plus divisor minus one does not fit the word,
\* in x and in y
C25_Witness ==
    /\ call.name = "launch"
    /\ call.problem_size[1] = 2 ^ DimBits - 1
    /\ compiled.grid_divisor_[1] = 2
    /\ call.problem_size[2] = 2 ^ DimBits - 1
    /\ compiled.grid_divisor_[2] = 2 ^ DimBits - 1
    /\ result.grid_size[1] = 2 ^ (DimBits - 1)
    /\ result.grid_size[2] = 1

(***************************************************************************)
(* C26: for any integer v and any target integer type T, converting        *)
(* Value(v) to T succeeds if and only if T::min <= v <= T::max, for signed  *)
(* and unsigned T alike, and fails with a cast error otherwise; Value(true) *)
(* converts to integer 1 and Value(false) to 0, yet Value(1) is not equal   *)
(* to Value(true).                                                         *)
(***************************************************************************)
C26_ToInRange ==
    /\ (call.name = "to" /\ call.from # "bool") =>
          /\ ~result.thrown <=> (NumericMin(call.to) <= call.v /\ call.v <= NumericMax(call.to))
          /\ ~result.thrown => result.v = call.v
    /\ (call.name = "to" /\ call.from = "bool") =>
          /\ ~result.thrown
          /\ result.v = (IF call.b THEN 1 ELSE 0)
    /\ call.name = "==" => ~result.ret

(***************************************************************************)
(* Claims about Config.                                                    *)
(***************************************************************************)
\* the parameter instances a Config binds, and the value it binds one to
BoundInstances(entries) == {entries[i].first.inner_ : i \in DOMAIN entries}

BoundTo(entries, instance) ==
    entries[CHOOSE i \in DOMAIN entries : entries[i].first.inner_ = instance].second

\* C27: two configurations are equal exactly when they bind the same parameter
\* instances to equal values, whatever the order of the inserts; equal
\* configurations have equal hashes; a configuration that binds another
\* instance of the same name, type and domain is not equal; and the lookup of
\* an instance that was not inserted fails.
C27_ConfigEquality ==
    /\ call.name = "==" =>
          /\ result.ret <=>
                /\ BoundInstances(config) = BoundInstances(call.that)
                /\ \A instance \in BoundInstances(config) :
                      BoundTo(config, instance) = BoundTo(call.that, instance)
          /\ result.ret => result.hash = result.that_hash
    /\ call.name = "at" =>
          (result.thrown <=> call.param \notin BoundInstances(config))

\* x and y inserted in the one order are compared to y and x inserted in the
\* other: equal, with equal hashes
C27_Witness ==
    /\ call.name = "=="
    /\ Len(config) = 2
    /\ Len(call.that) = 2
    /\ config[1].first.inner_ = call.that[2].first.inner_
    /\ config[2].first.inner_ = call.that[1].first.inner_
    /\ config[1].first.name # config[2].first.name
    /\ result.ret
    /\ result.hash = result.that_hash

(***************************************************************************)
(* C28: for any interleaving of concurrent intern_string calls from        *)
(* several threads, calls with equal contents return the same reference    *)
(* and calls with different contents return different references, and a    *)
(* returned reference stays valid afterwards; hence pointer equality of    *)
(* string values coincides with string equality.                           *)
(***************************************************************************)
\* the (input, reference) pairs returned so far, by any thread
Interned == UNION {{interned[t][k] : k \in DOMAIN interned[t]} : t \in Threads}

C28_InternedOnce ==
    /\ \A r1, r2 \in Interned : (r1.input = r2.input) <=> (r1.reference = r2.reference)
    /\ \A r \in Interned : r.reference \in DOMAIN heap /\ heap[r.reference] = r.input

\* two threads were returned the same reference for equal contents and a third
\* another reference for other contents, the first call of each having been
\* made before any of them took the mutex
C28_Witness ==
    /\ \A t \in Threads : Len(interned[t]) >= 1
    /\ \E t1, t2, t3 \in Threads :
          /\ t1 # t2
          /\ interned[t1][1].input = interned[t2][1].input
          /\ interned[t1][1].reference = interned[t2][1].reference
          /\ interned[t3][1].input # interned[t1][1].input
          /\ interned[t3][1].reference # interned[t1][1].reference
    /\ Len(heap) = 2

(***************************************************************************)
(* Claims about the order of the operations of a session.                  *)
(***************************************************************************)
\* the places of the operations named o in the call that made the operations os
Places(os, o) == {i \in DOMAIN os : os[i].op = o}

\* C29: for every configuration N the session evaluates, the after event of
\* each of N's measured launches is synchronized and its sample aggregated
\* before strategy.submit is called for N; submit is called exactly once for N,
\* with N's performance and N's configuration; and only after that call is
\* configuration N+1 compiled, starting from an empty aggregator, so that no
\* sample taken for N counts toward N+1.
C29_SubmitThenCompile ==
    [][~CompileFinish =>
          /\ \A i \in Places(ops', "submit") :
                /\ ~ops'[i].pending
                /\ \E j \in Places(ops', "add_sample") : j < i
                /\ \E j \in Places(ops', "sync_after") : j < i
                /\ Places(ops', "submit") = {i}
                /\ Len(handed') = Len(handed) + 1
                /\ handed'[Len(handed')].cfg = current_config_
                /\ launched.cfg = current_config_
                /\ \A k \in DOMAIN handed : handed[k].cfg # current_config_
          /\ Places(ops', "submit") = {} => handed' = handed
          /\ \A i \in Places(ops', "compile") :
                /\ \E j \in Places(ops', "submit") : j < i
                /\ ~thrown' => records_' = <<>> /\ current_kernel_'.cfg = current_config_'
                /\ \A j \in Places(ops', "add_sample") : j < i
    ]_vars

\* C30: every launch call on an initialized session that returns normally
\* enqueues exactly one kernel launch, of the current or of the best module,
\* with the problem size of the caller, in every state and for every timing of
\* the end of a compilation: no call returns without a launch and none
\* launches twice.
C30_OneLaunchPerCall ==
    (ops # <<>> /\ ~thrown) =>
        /\ Cardinality(Places(ops, "launch_best") \cup Places(ops, "launch_current")) = 1
        /\ launched.problem_size = called
        /\ \/ /\ Places(ops, "launch_best") # {}
              /\ launched.cfg = best_kernel_.cfg
           \/ /\ Places(ops, "launch_current") # {}
              /\ launched.cfg = current_kernel_.cfg
        /\ ops[1].in # "uninitialized"

\* a call that began in Measuring handed the performance to the strategy, found
\* the next module not ready and fell back on the best module: one launch
C30_Witness ==
    /\ ~thrown
    /\ Places(ops, "submit") # {}
    /\ Places(ops, "compile") # {}
    /\ Places(ops, "launch_best") # {}
    /\ Places(ops, "launch_current") = {}
    /\ launched.problem_size = called
    /\ state_ = "compiling"

(***************************************************************************)
(* Claims about the end of a tuning session.                               *)
(***************************************************************************)
\* max(max_evals, min_evals + num_outliers) of the aggregator of the session
MostSamples ==
    IF aggregator_.max_evals_ >= aggregator_.min_evals_ + aggregator_.num_outliers_
    THEN aggregator_.max_evals_
    ELSE aggregator_.min_evals_ + aggregator_.num_outliers_

\* C31: if the strategy yields only finitely many configurations, every
\* compilation eventually completes and the application keeps dispatching, an
\* initialized session reaches Finished after finitely many dispatches; and the
\* launch being measured for a configuration is at most the
\* max(max_evals, min_evals + num_outliers)-th sample of the aggregator.
C31_ReachesFinished ==
    /\ (state_ # "uninitialized") ~> (state_ = "finished")
    /\ [](state_ = "measuring" => Len(records_) < MostSamples)

(***************************************************************************)
(* Claims about the transitions of state_.                                 *)
(***************************************************************************)
\* the operation that a branch of the loop of launch begins with
OpensBranch(o) ==
    \/ o.op = "sync_after" /\ o.in \in {"measuring", "compiling"}
    \/ o.op = "record_before" /\ o.in = "tuning"
    \/ o.op = "launch_best" /\ o.in = "finished"
    \/ o.op = "throw" /\ o.in = "uninitialized"

\* the states of the branches that a call went through, then the state it left
\* the session in
Visited(os, left) ==
    LET opened == SelectSeq(os, OpensBranch)
    IN  Append([i \in DOMAIN opened |-> opened[i].in], left)

\* the changes of state that a call made
Changes(os, left) ==
    LET v == Visited(os, left)
    IN  {<<v[i], v[i + 1]>> : i \in {j \in 1..(Len(v) - 1) : v[j] # v[j + 1]}}

DrawnChanges ==
    {<<"compiling", "tuning">>, <<"tuning", "measuring">>,
     <<"measuring", "compiling">>, <<"measuring", "finished">>}

\* C32 as claimed (of the last launch call): the only changes of state are those
\* of the diagram, each state being entered from one state: Tuning only from
\* Compiling, Measuring only from Tuning, Compiling only from Measuring (or
\* from the initialization), Finished only from Measuring.
C32_Original == Changes(ops, state_) \subseteq DrawnChanges

\* C32 amended (of the last launch call): the changes of state are those of the
\* diagram and the change from Measuring to Tuning, made when the aggregator
\* wants another sample of the same configuration: Tuning is entered from
\* Compiling (module ready) or from Measuring (more samples), Measuring only
\* from Tuning, Compiling only from Measuring (or from the initialization),
\* Finished only from Measuring.
C32_Transitions ==
    Changes(ops, state_) \subseteq DrawnChanges \cup {<<"measuring", "tuning">>}

\* a call that began in Measuring went on in Tuning for another sample of the
\* same configuration
C32_Witness ==
    /\ Visited(ops, state_) = <<"measuring", "tuning", "measuring">>
    /\ records_ # <<>>
    /\ ~thrown


(***************************************************************************)
(* Claims about HillClimbingStrategy.                                      *)
(***************************************************************************)
\* the parameters in which two configurations differ
Differing(c1, c2) ==
    {n \in DOMAIN c1 \cup DOMAIN c2 :
        n \notin DOMAIN c1 \/ n \notin DOMAIN c2 \/ ~TunableValue_eq(c1[n], c2[n])}

\* the last call returned true from the loop of HillClimbingStrategy::submit
YieldedNeighbor == strat_ret = "true" /\ strat_via = "HillClimbing"

\* C33: every configuration that HillClimbingStrategy::submit yields as a
\* neighbour differs from the current best configuration in exactly one
\* parameter: the flip of an invalid configuration is undone before the next
\* flip is tried.
C33_OneFlip ==
    YieldedNeighbor =>
        \A i \in DOMAIN strategy :
            strategy[i].kind = "HillClimbing" =>
                Cardinality(Differing(config, strategy[i].best_config_)) = 1

\* the call a session is about to make: submit(performance, config) on layer i
Pending ==
    [st |-> strategy, config |-> config, file |-> file, ret |-> "none", via |-> "none",
     asked |-> {}, proposed |-> EmptyConfig]

\* the call x on layer i returned r from the loop of its own submit, without
\* asking the layer below
FromLoop(x, i, r) == r.via = "HillClimbing" /\ r.st[i + 1] = x.st[i + 1]

\* what HillClimbingStrategy::submit(p, config) on layer i of x may leave as r
HillSubmitKeeps(x, i, p, r) ==
    LET old == x.st[i]
        new == r.st[i]
        all == DOMAIN old.neighbors_
        beats == DoubleGt(p, old.best_performance_)
    IN  /\ r.ret \in {"true", "false"}
        /\ new.attempted_neighbors_count_ = Cardinality(new.attempted_neighbors_)
        /\ FromLoop(x, i, r) =>
              /\ r.ret = "true"
              /\ new.attempted_neighbors_ # {}
              /\ IF beats
                 THEN /\ new.best_config_ = x.config
                      /\ new.best_performance_ = p
                 ELSE /\ new.best_config_ = old.best_config_
                      /\ new.best_performance_ = old.best_performance_
                      /\ old.attempted_neighbors_ \subseteq new.attempted_neighbors_
                      /\ old.attempted_neighbors_ # new.attempted_neighbors_
        /\ ~FromLoop(x, i, r) =>
              IF r.ret = "true"
              THEN /\ new.attempted_neighbors_ = {}
                   /\ new.attempted_neighbors_count_ = 0
                   /\ new.best_config_ = r.config
                   /\ new.best_performance_ = Perf(0, 1)
              ELSE new.attempted_neighbors_ = all
        /\ (~beats /\ old.attempted_neighbors_ = all) => ~FromLoop(x, i, r)

\* the layer i of x with nothing tried
Untried(x, i) ==
    [x EXCEPT !.st[i].attempted_neighbors_ = {}, !.st[i].attempted_neighbors_count_ = 0]

FirstRun == strat_ret = "true" /\ strategy[1].kind = "Caching" /\ strategy[1].first_run_

\* what the CachingStrategy holds of its inner_: the proposal it keeps aside in
\* the first run, the configuration it yielded after that
Outstanding(layer, c) == IF layer.first_run_ THEN layer.first_config_ ELSE c

\* the call a session is about to make on its CachingStrategy, where inner_ has
\* proposed last what the strategy holds of it
PendingCaching == [Pending EXCEPT !.proposed = Outstanding(strategy[1], config)]

\* the init of a later session on the file as it is now
PendingInit == [Pending EXCEPT !.st = Constructed(strategy), !.config = EmptyConfig]

\* the records of file f that carry configuration c
Recorded(f, c) ==
    {k \in DOMAIN f.records :
        ~IsRaw(f.records[k]) /\ f.records[k].config = Config_to_json(c)}

\* no record of file f has a better performance than record j
BestRecord(f, j) ==
    \A k \in DOMAIN f.records :
        ~DoubleGt(f.records[k].performance.v, f.records[j].performance.v)

\* C35: when the cache holds a best-known configuration at init, the
\* CachingStrategy yields that configuration and keeps the first proposal of
\* inner_ aside; the first submit restores the proposal as the next candidate
\* (yielded when the cache does not hold it, handed to inner_ with its cached
\* performance when it does), and the performance passed to this submit is
\* neither appended to the cache nor forwarded to inner_ (the outcome does not
\* depend on it, the file and cache_ stay as they were).
C35_FirstRunReplay ==
    FirstRun =>
        LET layer == strategy[1]
            stash == layer.first_config_
            found == TuningCache_find(layer.cache_, stash)
            out(k) == Strategy_submit(PendingCaching, 1, SubmitPerformances[k], build)
        IN  /\ strat_via = "Caching"
            /\ \E j \in Recorded(file, config) : BestRecord(file, j)
            /\ \E q \in Strategy_init(PendingInit, 2, builder_, build) :
                  q.ret = "true" /\ q.config = stash /\ q.st[2] = strategy[2]
            /\ \A k \in DOMAIN SubmitPerformances : out(k) = out(1)
            /\ \A r \in out(1) :
                  /\ r.file = file
                  /\ r.st[1].cache_ = layer.cache_
                  /\ ~r.st[1].first_run_
                  /\ IF found.found
                     THEN [by |-> 1, performance |-> found.answer, config |-> stash,
                           latest |-> stash] \in r.asked
                     ELSE /\ r.ret = "true"
                          /\ r.config = stash
                          /\ r.asked = {}
                          /\ r.st[2] = strategy[2]

\* the first submit of a session that began with the cached best has yielded
\* the proposal kept aside: inner_ has proposed once, nothing was appended
C35_Witness ==
    /\ strategy[1].kind = "Caching"
    /\ ~strategy[1].first_run_
    /\ strat_ret = "true"
    /\ calls = 2
    /\ trues = 2
    /\ Len(file.records) = 1
    /\ strategy[2].iter_.remaining_ = strategy[2].iter_.size_ - 1

\* the key of configuration c is in the cache of the layer or in the file f
Cached(layer, f, c) ==
    \/ TuningCache_find(layer.cache_, c).found
    \/ \E k \in DOMAIN f.records :
          ~IsRaw(f.records[k])
          /\ f.records[k].key = config_to_key(c, layer.cache_.parameters_)

\* C36: apart from the replay of the cached best in the first run, a
\* configuration that CachingStrategy yields has its key neither in cache_ nor
\* in the file when it is yielded; every configuration handed to inner_ beyond
\* the one just measured is a cached one with its cached performance, and the
\* strategy returns false only when inner_ is exhausted.
C36_YieldedFresh ==
    (strat_ret = "true" /\ strategy[1].kind = "Caching") =>
        /\ ~strategy[1].first_run_ => ~Cached(strategy[1], file, config)
        /\ \A k \in DOMAIN SubmitPerformances :
              \A r \in Strategy_submit(PendingCaching, 1, SubmitPerformances[k], build) :
                  /\ r.ret = "true" => ~Cached(r.st[1], r.file, r.config)
                  /\ r.ret = "false" => r.st[2].iter_.remaining_ = 0
                  /\ \A e \in r.asked :
                        LET found == TuningCache_find(r.st[1].cache_, e.config)
                        IN  found.found /\ found.answer = e.performance

\* every index of the space is a valid configuration, and inner_ has marked
\* (proposed) more of them than the strategy has yielded in this session: a
\* proposal was found in the cache and handed back to inner_
C36_Witness ==
    /\ strategy[1].kind = "Caching"
    /\ ~strategy[1].first_run_
    /\ strat_ret = "true"
    /\ ~Cached(strategy[1], file, config)
    /\ Cardinality(ValidIndices(SpaceOf(builder_))) = strategy[2].iter_.size_
    /\ trues < strategy[2].iter_.size_ - strategy[2].iter_.remaining_

\* the last record of file f that carries configuration c has performance p
LastRecorded(f, c, p) ==
    /\ Recorded(f, c) # {}
    /\ LET last == CHOOSE k \in Recorded(f, c) : \A j \in Recorded(f, c) : j <= k
       IN  /\ f.records[last].performance.type = Json_double(p).type
           /\ f.records[last].performance.v = Json_double(p).v

\* the calls to inner_ that led from x to r are well formed: each carries the
\* configuration inner_ proposed last, with the performance the session just
\* measured for it (measured holds it) or the one last recorded for it, and
\* what the strategy holds of inner_ afterwards is its latest proposal
InnerWellFormed(x, measured, r) ==
    /\ \A e \in r.asked :
          /\ e.config = e.latest
          /\ \/ \E k \in DOMAIN measured :
                   e.config = x.config /\ e.performance = measured[k]
             \/ LastRecorded(r.file, e.config, e.performance)
    /\ r.ret = "true" => r.proposed = Outstanding(r.st[1], r.config)

\* C37: the strategy wrapped by CachingStrategy sees a well-formed protocol:
\* every inner_.submit carries the configuration that inner_ proposed most
\* recently, together with the performance of that configuration (the one the
\* session measured, or the one recorded for it in the cache), and every
\* configuration that the session measured outside the first run is submitted
\* to inner_.
C37_InnerProtocol ==
    strategy[1].kind = "Caching" =>
        /\ \A r \in Strategy_init(PendingInit, 1, builder_, build) :
              InnerWellFormed(PendingInit, <<>>, r)
        /\ strat_ret = "true" =>
              \A k \in DOMAIN SubmitPerformances :
                  LET p == SubmitPerformances[k]
                  IN  \A r \in Strategy_submit(PendingCaching, 1, p, build) :
                          /\ InnerWellFormed(PendingCaching,
                                             IF strategy[1].first_run_ THEN <<>> ELSE <<p>>, r)
                          /\ (~strategy[1].first_run_ /\ r.ret # "throw") =>
                                [by |-> 1, performance |-> p, config |-> config,
                                 latest |-> config] \in r.asked

\* C38: whenever collect() returns true, the performance is computed from at
\* least one retained sample, for every setting of min_evals, max_evals,
\* max_seconds and num_outliers: more samples were added than num_outliers
\* discards, and the performance is not 0/0.
C38_RetainedSample ==
    (call.name = "collect" /\ result.ok) =>
        /\ Len(call.records) > aggregator_.num_outliers_
        /\ ~IsNaN(result.performance)

\* C39: every call of ConfigIterator::next returns after finitely many draws,
\* for every size of the space, when the generator draws every index sooner or
\* later, and remaining_ reaches 0 exactly when every index of [0, size) is
\* marked. A generator that draws every index ends the loop exactly when some
\* index tests as unvisited or remaining_ is 0, so the call returns in every
\* state but the one that next leaves as "hang"; and remaining_ is the number
\* of the indices that test as unvisited.
C39_NextReturns ==
    /\ iter_ret # "hang"
    /\ iter_.remaining_ = Cardinality(Unvisited(iter_, build))
====
